---- MODULE Spec2Model ----
(***************************************************************************)
(* Notes sync backend: vector clocks (pkg/clock), the operation-based text *)
(* CRDT (pkg/crdt) and the sync engine (internal/sync) over the note store *)
(* (internal/store).                                                       *)
(*                                                                         *)
(* Client identifiers are the strings "c1" < "c2" < ...; they are written  *)
(* 1, 2, ... so that the lexicographic order of the Go strings is the      *)
(* order of the integers.  A vector clock is a total function on Clients;  *)
(* the value 0 stands for an absent key (Go reads an absent key as 0).     *)
(* Text is a sequence of runes, each written as a one-character string.    *)
(***************************************************************************)
EXTENDS Integers, Sequences, FiniteSets, TLC

\* ---------------------------------------------------------------- bounds
NumClients == 2
MaxClock == 2
MaxTime == 1
MaxPos == 1
MaxLength == 2
MaxLog == 3
MaxCallLog == 2
MaxOps == 3
NumNotes == 1
MaxEdits == 3
MaxStamp == 0

\* operations created while requests interleave
MaxRaceEdits == 2

\* frames read while Engine.ApplyOperation runs in steps
MaxLiveMsgs == 2

\* websocket connections opened, messages read from them, and the buffers
\* of the channels (make(chan ..., 256) in the source)
NumConns == 2
MaxMsgs == 3
SendCap == 1
BroadcastCap == 2

Clients == 1 .. NumClients
Replicas == Clients
NoteIDs == 1 .. NumNotes
Stamps == 0 .. MaxStamp
Times == 0 .. MaxTime
Lengths == 1 .. MaxLength

Positions == 0 .. MaxPos
Conns == 1 .. NumConns
Clocks == [Clients -> 0 .. MaxClock]
\* Client k types the k-th letter, so a rune of a text names its author.
Alphabet == <<"a", "b", "c", "d">>
Typed(clientID) == <<Alphabet[clientID]>>

\* ------------------------------------------------------------ pkg/clock
NewVectorClock == [k \in Clients |-> 0]

Increment(vc, clientID) == [vc EXCEPT ![clientID] = @ + 1]

Update(vc, other) ==
    [k \in Clients |-> IF vc[k] < other[k] THEN other[k] ELSE vc[k]]

Compare(vc, other) ==
    LET hasLess == \E k \in Clients : vc[k] < other[k]
        hasGreater == \E k \in Clients : vc[k] > other[k]
    IN  IF hasLess /\ hasGreater THEN 0
        ELSE IF hasLess THEN -1
        ELSE IF hasGreater THEN 1
        ELSE 0

IsConcurrent(vc, other) == Compare(vc, other) = 0

\* HappensBefore that also holds of equal clocks.
HappensBeforeOrEqual(vc, other) == Compare(vc, other) # 1

HappensBefore(vc, other) == Compare(vc, other) = -1

\* A VectorClock as the Go map it is: some client ids are keys, the others
\* are absent.  m[k] of an absent key is the zero value.
ClockMaps == UNION {[K -> 0 .. MaxClock] : K \in SUBSET Clients}

Lookup(m, k) == IF k \in DOMAIN m THEN m[k] ELSE 0

\* The map read at every client id.
Total(m) == [k \in Clients |-> Lookup(m, k)]

\* Compare that ranges over the keys of vc alone.
CompareOwnKeys(vc, other) ==
    LET hasLess == \E k \in DOMAIN vc : vc[k] < Lookup(other, k)
        hasGreater == \E k \in DOMAIN vc : vc[k] > Lookup(other, k)
    IN  IF hasLess /\ hasGreater THEN 0
        ELSE IF hasLess THEN -1
        ELSE IF hasGreater THEN 1
        ELSE 0

\* Compare on the maps: allKeys is the union of the two key sets.
CompareKeys(vc, other) ==
    LET allKeys == DOMAIN vc \cup DOMAIN other
        hasLess == \E k \in allKeys : Lookup(vc, k) < Lookup(other, k)
        hasGreater == \E k \in allKeys : Lookup(vc, k) > Lookup(other, k)
    IN  IF hasLess /\ hasGreater THEN 0
        ELSE IF hasLess THEN -1
        ELSE IF hasGreater THEN 1
        ELSE 0

\* Increment that raises every key the map holds.
IncrementAll(vc, clientID) ==
    [k \in DOMAIN vc \cup {clientID} |-> Lookup(vc, k) + 1]

\* Increment on the map: vc[clientID]++ creates the key.
IncrementKey(vc, clientID) ==
    [k \in DOMAIN vc \cup {clientID} |->
        IF k = clientID THEN Lookup(vc, k) + 1 ELSE vc[k]]

\* Update that stores every component of other.
UpdateOverwrite(vc, other) ==
    [k \in DOMAIN vc \cup DOMAIN other |->
        IF k \in DOMAIN other THEN other[k] ELSE vc[k]]

\* Update on the map: a key of other is set only where it is larger.
UpdateKeys(vc, other) ==
    LET raised == {k \in DOMAIN other : Lookup(vc, k) < other[k]}
    IN  [k \in DOMAIN vc \cup raised |->
            IF k \in raised THEN other[k] ELSE vc[k]]

\* ------------------------------------------------------------- pkg/crdt
generateOperationID(clientID, vc) == <<clientID, vc>>

NewCRDT == [Operations |-> <<>>, Text |-> <<>>, Clock |-> NewVectorClock]

\* The comparator handed to sort.Slice.
Less(a, b) ==
    LET cmp == Compare(a.Clock, b.Clock)
    IN  IF cmp = -1 THEN TRUE
        ELSE IF cmp = 1 THEN FALSE
        ELSE IF a.Timestamp # b.Timestamp THEN a.Timestamp < b.Timestamp
        ELSE a.ClientID < b.ClientID

Swap(s, i, j) == [s EXCEPT ![i] = s[j], ![j] = s[i]]

\* Inner loop of the insertion sort: for j := i; j > a && less(j, j-1); j--.
RECURSIVE SiftDown(_, _)
SiftDown(s, j) ==
    IF j > 1 /\ Less(s[j], s[j - 1])
    THEN SiftDown(Swap(s, j, j - 1), j - 1)
    ELSE s

\* sort.Slice on a slice of at most 6 elements is an insertion sort (every Go
\* release: pdqsort below 12 elements, and before it quickSort whose shell
\* pass needs 7): for i := a + 1; i < b; i++ { sift i down }.
RECURSIVE SortFrom(_, _)
SortFrom(s, i) ==
    IF i > Len(s) THEN s ELSE SortFrom(SiftDown(s, i), i + 1)

\* No sort: the log order.
SortSliceNone(s) == s

SortSlice(s) == SortFrom(s, 2)

\* A replay step that moves an insert beyond the end to the end.
ReplayOpClamped(text, op) ==
    LET at == IF op.Position <= Len(text) THEN op.Position ELSE Len(text)
    IN  IF op.Type = "insert"
        THEN SubSeq(text, 1, at) \o op.Content \o SubSeq(text, at + 1, Len(text))
        ELSE IF op.Position < Len(text)
             THEN SubSeq(text, 1, op.Position)
                  \o SubSeq(text, op.Position + 2, Len(text))
             ELSE text

\* Replay step whose delete removes up to two characters.
ReplayOpDeleteTwo(text, op) ==
    IF op.Type = "insert"
    THEN IF op.Position <= Len(text)
         THEN SubSeq(text, 1, op.Position) \o op.Content
              \o SubSeq(text, op.Position + 1, Len(text))
         ELSE text
    ELSE IF op.Position < Len(text)
         THEN SubSeq(text, 1, op.Position)
              \o SubSeq(text, op.Position + 3, Len(text))
         ELSE text

\* One step of the replay loop of rebuildText.
ReplayOp(text, op) ==
    IF op.Type = "insert"
    THEN IF op.Position <= Len(text)
         THEN SubSeq(text, 1, op.Position) \o op.Content
              \o SubSeq(text, op.Position + 1, Len(text))
         ELSE text
    ELSE IF op.Position < Len(text)
         THEN SubSeq(text, 1, op.Position)
              \o SubSeq(text, op.Position + 2, Len(text))
         ELSE text

RECURSIVE Replay(_, _, _)
Replay(sortedOps, i, text) ==
    IF i > Len(sortedOps) THEN text
    ELSE Replay(sortedOps, i + 1, ReplayOp(text, sortedOps[i]))

rebuildText(ops) == Replay(SortSlice(ops), 1, <<>>)

\* ApplyOperation that appends and leaves Text as it was.
ApplyOperationNoRebuild(c, op) ==
    [Operations |-> Append(c.Operations, op),
     Text |-> c.Text,
     Clock |-> Update(c.Clock, op.Clock)]

\* ApplyOperation that ignores an operation whose id the log already holds.
ApplyOperationOnce(c, op) ==
    IF \E i \in 1 .. Len(c.Operations) : c.Operations[i].ID = op.ID
    THEN c
    ELSE [Operations |-> Append(c.Operations, op),
          Text |-> rebuildText(Append(c.Operations, op)),
          Clock |-> Update(c.Clock, op.Clock)]

ApplyOperation(c, op) ==
    LET ops == Append(c.Operations, op)
    IN  [Operations |-> ops,
         Text |-> rebuildText(ops),
         Clock |-> Update(c.Clock, op.Clock)]

RECURSIVE ApplyOperations(_, _)
ApplyOperations(c, ops) ==
    IF ops = <<>> THEN c
    ELSE ApplyOperations(ApplyOperation(c, Head(ops)), Tail(ops))

\* The pair (receiver after the call, operation returned).
CreateInsertOperation(c, clientID, position, content, now) ==
    LET vc == Increment(c.Clock, clientID)
    IN  [crdt |-> [c EXCEPT !.Clock = vc],
         op |-> [ID |-> generateOperationID(clientID, vc),
                 ClientID |-> clientID,
                 Clock |-> vc,
                 Type |-> "insert",
                 Position |-> position,
                 Content |-> content,
                 Timestamp |-> now]]

CreateDeleteOperation(c, clientID, position, length, now) ==
    LET vc == Increment(c.Clock, clientID)
    IN  [crdt |-> [c EXCEPT !.Clock = vc],
         op |-> [ID |-> generateOperationID(clientID, vc),
                 ClientID |-> clientID,
                 Clock |-> vc,
                 Type |-> "delete",
                 Position |-> position,
                 Content |-> <<>>,
                 Timestamp |-> now]]

\* The loop of GetOperationsSince, and of the since filter of
\* Store.GetOperationsForNote, over the log from its head.
RECURSIVE GetOperationsSince(_, _)
GetOperationsSince(ops, since) ==
    IF ops = <<>> THEN <<>>
    ELSE IF ~HappensBefore(Head(ops).Clock, since)
            /\ Compare(Head(ops).Clock, since) # 0
         THEN <<Head(ops)>> \o GetOperationsSince(Tail(ops), since)
         ELSE GetOperationsSince(Tail(ops), since)

OpIDs(ops) == {ops[i].ID : i \in 1 .. Len(ops)}

\* The operations of other whose id the receiver does not hold, in other's order.
RECURSIVE NewOps(_, _)
NewOps(existingIDs, ops) ==
    IF ops = <<>> THEN <<>>
    ELSE IF Head(ops).ID \in existingIDs
         THEN NewOps(existingIDs, Tail(ops))
         ELSE <<Head(ops)>> \o NewOps(existingIDs, Tail(ops))

\* Merge without the look-up of the ids the receiver holds.
MergeEverything(c, other) == ApplyOperations(c, other.Operations)

\* Merge that puts the operations it imports in front of the log.
MergePrepend(c, other) ==
    LET newOps == NewOps(OpIDs(c.Operations), other.Operations)
        ops == newOps \o c.Operations
    IN  [Operations |-> ops,
         Text |-> rebuildText(ops),
         Clock |-> ApplyOperations(c, newOps).Clock]

Merge(c, other) ==
    ApplyOperations(c, NewOps(OpIDs(c.Operations), other.Operations))

\* ------------------------------------------------------ internal/models
\* A note as stored, as sent and as held by a client.  ID 0 with Exists
\* FALSE is the nil *Note.
NoNote ==
    [Exists |-> FALSE, ID |-> 0, CRDT |-> NewCRDT, Clock |-> NewVectorClock,
     Content |-> <<>>, Deleted |-> FALSE]

NewNote(id, content) ==
    [Exists |-> TRUE, ID |-> id, CRDT |-> NewCRDT, Clock |-> NewVectorClock,
     Content |-> content, Deleted |-> FALSE]

\* An entry of a map[string]clock.VectorClock: absent (nil) or a clock.
NilClock == [IsNil |-> TRUE, vc |-> NewVectorClock]

SomeClock(vc) == [IsNil |-> FALSE, vc |-> vc]

NoOp ==
    [ID |-> <<0, NewVectorClock>>, ClientID |-> 0, Clock |-> NewVectorClock,
     Type |-> "none", Position |-> 0, Content |-> <<>>, Timestamp |-> 0]

EmptyResponse ==
    [Notes |-> [n \in NoteIDs |-> NoNote],
     Conflicts |-> <<>>,
     Clock |-> [n \in NoteIDs |-> NilClock]]

\* ------------------------------------------------------- internal/store
GetNote(st, id) == st[id]

SaveNote(st, note) == [st EXCEPT ![note.ID] = note]

GetAllNotes(st) == {id \in NoteIDs : st[id].Exists /\ ~st[id].Deleted}

DeleteNote(st, id) ==
    IF st[id].Exists THEN [st EXCEPT ![id].Deleted = TRUE] ELSE st

\* -------------------------------------------------------- internal/sync
\* syncBranch with the receiver and the argument of Compare exchanged.
syncBranchSwapped(serverNote, clientNote) ==
    LET comparison == Compare(serverNote.Clock, clientNote.Clock)
    IN  IF ~serverNote.Exists THEN "new"
        ELSE IF comparison = -1 THEN "before"
        ELSE IF comparison = 1 THEN "after"
        ELSE "merged"

\* syncNote: the branch it takes once GetNote has returned.
syncBranch(serverNote, clientNote) ==
    LET comparison == Compare(clientNote.Clock, serverNote.Clock)
    IN  IF ~serverNote.Exists THEN "new"
        ELSE IF comparison = -1 THEN "before"
        ELSE IF comparison = 1 THEN "after"
        ELSE "merged"

\* syncNew that stores the note with its text replayed from its log.
syncNewReplayed(clientNote) ==
    [clientNote EXCEPT !.CRDT.Text = rebuildText(clientNote.CRDT.Operations)]

\* syncNote: the note it saves when the server has none.
syncNew(clientNote) == clientNote

\* syncMerged without serverNote.Clock.Update.
syncMergedKeepClock(serverNote, clientNote) ==
    LET mergedCRDT == Merge(serverNote.CRDT, clientNote.CRDT)
    IN  [serverNote EXCEPT !.CRDT = mergedCRDT, !.Content = mergedCRDT.Text]

\* syncNote: the note it saves on the branches that merge.
syncMerged(serverNote, clientNote) ==
    LET mergedCRDT == Merge(serverNote.CRDT, clientNote.CRDT)
    IN  [serverNote EXCEPT
            !.CRDT = mergedCRDT,
            !.Clock = Update(serverNote.Clock, clientNote.Clock),
            !.Content = mergedCRDT.Text]

NoConflict ==
    [NoteID |-> 0, ClientClock |-> NewVectorClock,
     ServerClock |-> NewVectorClock, Resolution |-> "none"]

\* syncNote that returns a conflict from every branch that merges.
syncNoteLoud(serverNote, clientNote) ==
    LET branch == syncBranch(serverNote, clientNote)
        merged == syncMerged(serverNote, clientNote)
        none == [save |-> FALSE, note |-> NoNote, hasConflict |-> FALSE,
                 conflict |-> NoConflict, branch |-> branch]
    IN  IF branch = "new"
        THEN [none EXCEPT !.save = TRUE, !.note = syncNew(clientNote)]
        ELSE IF branch = "before"
        THEN none
        ELSE [none EXCEPT
                 !.save = TRUE, !.note = merged,
                 !.hasConflict = TRUE,
                 !.conflict = [NoteID |-> clientNote.ID,
                               ClientClock |-> clientNote.Clock,
                               ServerClock |-> merged.Clock,
                               Resolution |-> "merged"]]

\* syncNote after its GetNote: what it saves (if anything), the conflict it
\* returns (if any) and the branch it logs.  The conflict is built after
\* serverNote.Clock.Update, from the same map.
syncNote(serverNote, clientNote) ==
    LET branch == syncBranch(serverNote, clientNote)
        merged == syncMerged(serverNote, clientNote)
        none == [save |-> FALSE, note |-> NoNote, hasConflict |-> FALSE,
                 conflict |-> NoConflict, branch |-> branch]
    IN  IF branch = "new"
        THEN [none EXCEPT !.save = TRUE, !.note = syncNew(clientNote)]
        ELSE IF branch = "before"
        THEN none
        ELSE IF branch = "after"
        THEN [none EXCEPT !.save = TRUE, !.note = merged]
        ELSE [none EXCEPT
                 !.save = TRUE, !.note = merged,
                 !.hasConflict = TRUE,
                 !.conflict = [NoteID |-> clientNote.ID,
                               ClientClock |-> clientNote.Clock,
                               ServerClock |-> merged.Clock,
                               Resolution |-> "merged"]]

\* The response filter with "not before" in place of "after".
SyncFilterNotBefore(st, reqLastSync, response) ==
    LET sent(id) ==
            /\ id \in GetAllNotes(st)
            /\ \/ reqLastSync[id].IsNil
               \/ Compare(st[id].Clock, reqLastSync[id].vc) # -1
    IN  [response EXCEPT
            !.Notes = [id \in NoteIDs |-> IF sent(id) THEN st[id] ELSE NoNote],
            !.Clock = [id \in NoteIDs |->
                          IF sent(id) THEN SomeClock(st[id].Clock) ELSE NilClock]]

\* The response filter of Sync over the rows GetAllNotes returned.
SyncFilter(st, reqLastSync, response) ==
    LET sent(id) ==
            /\ id \in GetAllNotes(st)
            /\ \/ reqLastSync[id].IsNil
               \/ Compare(st[id].Clock, reqLastSync[id].vc) = 1
    IN  [response EXCEPT
            !.Notes = [id \in NoteIDs |-> IF sent(id) THEN st[id] ELSE NoNote],
            !.Clock = [id \in NoteIDs |->
                          IF sent(id) THEN SomeClock(st[id].Clock) ELSE NilClock]]

\* Engine.ApplyOperation that leaves the note's Content as it was.
EngineApplyKeepContent(note, op) ==
    [note EXCEPT !.CRDT = ApplyOperation(note.CRDT, op),
                 !.Clock = Update(note.Clock, op.Clock)]

\* Engine.ApplyOperation after its GetNote found the note.
EngineApply(note, op) ==
    LET c == ApplyOperation(note.CRDT, op)
    IN  [note EXCEPT !.CRDT = c,
                     !.Clock = Update(note.Clock, op.Clock),
                     !.Content = c.Text]

\* Engine.CreateNote up to its SaveNote.
EngineCreateNote(id, content, clientID, now) ==
    LET note == [NewNote(id, content) EXCEPT
                    !.Clock = Increment(NewVectorClock, clientID)]
        res == CreateInsertOperation(note.CRDT, clientID, 0, content, now)
    IN  IF content # <<>>
        THEN [note EXCEPT !.CRDT = ApplyOperation(res.crdt, res.op)]
        ELSE note

\* ------------------------------------------------------------ client.js
\* rebuildText of the client: a stable sort by timestamp, then the replay.
JsLess(a, b) == a.Timestamp < b.Timestamp

RECURSIVE JsSift(_, _)
JsSift(s, j) ==
    IF j > 1 /\ JsLess(s[j], s[j - 1])
    THEN JsSift(Swap(s, j, j - 1), j - 1)
    ELSE s

RECURSIVE JsSortFrom(_, _)
JsSortFrom(s, i) ==
    IF i > Len(s) THEN s ELSE JsSortFrom(JsSift(s, i), i + 1)

JsReplayOp(text, op) ==
    LET at == IF op.Position <= Len(text) THEN op.Position ELSE Len(text)
    IN  IF op.Type = "insert"
        THEN SubSeq(text, 1, at) \o op.Content \o SubSeq(text, at + 1, Len(text))
        ELSE IF op.Position < Len(text)
             THEN SubSeq(text, 1, op.Position)
                  \o SubSeq(text, op.Position + 2, Len(text))
             ELSE text

RECURSIVE JsReplay(_, _, _)
JsReplay(sortedOps, i, text) ==
    IF i > Len(sortedOps) THEN text
    ELSE JsReplay(sortedOps, i + 1, JsReplayOp(text, sortedOps[i]))

JsRebuildText(ops) == JsReplay(JsSortFrom(ops, 2), 1, <<>>)

\* createNote: the local note before anything is sent.
JsCreateNote(id, content, clientID) ==
    [NewNote(id, content) EXCEPT
        !.CRDT = [Operations |-> <<>>, Text |-> content, Clock |-> NewVectorClock],
        !.Clock = Increment(NewVectorClock, clientID)]

\* editNote: the operation, and the note after applyOperation.
JsEditNote(note, clientID, type, position, content, now, serial) ==
    LET vc == Increment(note.Clock, clientID)
        op == [ID |-> <<0, [k \in Clients |-> serial]>>,
               ClientID |-> clientID,
               Clock |-> vc,
               Type |-> type,
               Position |-> position,
               Content |-> IF type = "delete" THEN <<>> ELSE content,
               Timestamp |-> now]
        ops == Append(note.CRDT.Operations, op)
    IN  [op |-> op,
         note |-> [note EXCEPT !.CRDT.Operations = ops,
                               !.Clock = vc,
                               !.Content = JsRebuildText(ops)]]

\* ------------------------------------------------------ internal/api
\* A websocket message on a channel: its type, the connection whose reader
\* made it and the number of the frame it was read from.
NoMsg == [Type |-> "none", from |-> 0, seq |-> 0]

\* A buffered channel: its buffer and whether close() was called on it.
MakeChan == [buf |-> <<>>, closed |-> FALSE]

\* A send that puts the message at the head of the buffer.
EnqueueFirst(buf, msg) == <<msg>> \o buf

\* ch <- msg once there is room in the buffer.
Enqueue(buf, msg) == Append(buf, msg)

\* A select that gives up on a full channel and leaves it open.
TrySendSkip(ch, msg, cap) ==
    IF ch.closed THEN [res |-> "panic", ch |-> ch]
    ELSE IF Len(ch.buf) < cap
    THEN [res |-> "sent", ch |-> [ch EXCEPT !.buf = Enqueue(ch.buf, msg)]]
    ELSE [res |-> "sent", ch |-> ch]

\* select { case ch <- msg: default: } on a channel of capacity cap.
TrySend(ch, msg, cap) ==
    IF ch.closed THEN [res |-> "panic", ch |-> ch]
    ELSE IF Len(ch.buf) < cap
    THEN [res |-> "sent", ch |-> [ch EXCEPT !.buf = Enqueue(ch.buf, msg)]]
    ELSE [res |-> "full", ch |-> ch]

\* A Client that HandleWebSocket has not made yet.
NoConn ==
    [state |-> "unused", ID |-> 0, send |-> MakeChan, connClosed |-> FALSE,
     reader |-> "none", writer |-> "none", pending |-> NoMsg, wire |-> <<>>]

\* HandleWebSocket: the Client and its two goroutines.
NewConn(clientID) ==
    [NoConn EXCEPT !.state = "open", !.ID = clientID,
                   !.reader = "read", !.writer = "write"]

\* handleBroadcast between two messages.
HubIdle ==
    [busy |-> FALSE, msg |-> NoMsg, todo |-> {}, snapshot |-> {},
     offered |-> {}, dropped |-> {}]

\* The connections in the registry.
Registered(reg) == {reg[id] : id \in {k \in Clients : reg[k] # 0}}

NoClockCall ==
    [op |-> "none", a |-> NewVectorClock, b |-> NewVectorClock,
     cmp |-> 0, rev |-> 0, before |-> FALSE, after |-> FALSE,
     selfBefore |-> FALSE, concurrent |-> FALSE, selfConcurrent |-> FALSE,
     id |-> 0, stamp |-> NewVectorClock]

\* ------------------------------------------------------------- the state
\* crdt, last: replicas that use pkg/crdt directly.
\* store: the notes table.  local, lastSync: each client's cache.  calls: the
\* request each client has in flight and the goroutine serving it.  nextOp:
\* operations created so far.  accepted: per note, the ids of the operations
\* that a cycle which reported success has persisted.  out: what the last
\* request served one at a time returned and logged.
\* clients, conns, broadcast, hub, panicked, nextMsg: the websocket server.
\* clients is Server.clients (client id to connection, 0 for no entry);
\* conns the Client objects with their send channel, socket and two pumps;
\* broadcast the shared channel; hub the position of handleBroadcast;
\* panicked whether a goroutine of the process has panicked.
\* clockA, clockB, clockCall: two vector clocks and the last method called.
VARIABLES crdt, last, store, local, lastSync, calls, nextOp, accepted, out,
          clients, conns, broadcast, hub, panicked, nextMsg,
          clockA, clockB, clockCall

vars == <<crdt, last, store, local, lastSync, calls, nextOp, accepted, out,
          clients, conns, broadcast, hub, panicked, nextMsg,
          clockA, clockB, clockCall>>

hubVars == <<clients, conns, broadcast, hub, panicked, nextMsg>>

clockVars == <<clockA, clockB, clockCall>>

crdtVars == <<crdt, last>>

engineVars == <<store, local, lastSync, calls, nextOp, accepted, out>>

NoCall == [kind |-> "new", r |-> 0, s |-> 0, added |-> 0]

Idle ==
    [kind |-> "idle", pc |-> "idle", notes |-> <<>>,
     lastSync |-> [n \in NoteIDs |-> NilClock], i |-> 0,
     serverNote |-> NoNote, resp |-> EmptyResponse, branch |-> "none",
     noteID |-> 0, op |-> NoOp, err |-> FALSE]

NoOut ==
    [kind |-> "none", c |-> 0, branches |-> <<>>, saved |-> {},
     resp |-> EmptyResponse, op |-> NoOp, err |-> FALSE,
     lastSync |-> [n \in NoteIDs |-> NilClock]]

\* NewServer.
InitHub ==
    /\ clients = [id \in Clients |-> 0]
    /\ conns = [c \in Conns |-> NoConn]
    /\ broadcast = <<>>
    /\ hub = HubIdle
    /\ panicked = FALSE
    /\ nextMsg = 0

Init ==
    /\ crdt = [r \in Replicas |-> NewCRDT]
    /\ last = NoCall
    /\ store = [n \in NoteIDs |-> NoNote]
    /\ local = [c \in Clients |-> [n \in NoteIDs |-> NoNote]]
    /\ lastSync = [c \in Clients |-> [n \in NoteIDs |-> NilClock]]
    /\ calls = [c \in Clients |-> Idle]
    /\ nextOp = 0
    /\ accepted = [n \in NoteIDs |-> {}]
    /\ out = NoOut
    /\ InitHub
    /\ clockA = NewVectorClock
    /\ clockB = NewVectorClock
    /\ clockCall = NoClockCall

\* Every operation some replica holds: what can be delivered to a replica.
Known == UNION {{crdt[r].Operations[i] : i \in 1 .. Len(crdt[r].Operations)} : r \in Replicas}

\* Operations created so far (replica r alone raises component r).
RECURSIVE Created(_)
Created(rs) ==
    IF rs = {} THEN 0
    ELSE LET r == CHOOSE x \in rs : TRUE
         IN  crdt[r].Clock[r] + Created(rs \ {r})

\* Replica r edits as client r: op := c.CreateInsertOperation(...) followed by
\* c.ApplyOperation(op); time.Now() is an input.
LocalInsert(r, position, now) ==
    LET res == CreateInsertOperation(crdt[r], r, position, Typed(r), now)
    IN  /\ crdt[r].Clock[r] < MaxClock
        /\ Created(Replicas) < MaxOps
        /\ Len(crdt[r].Operations) < MaxLog
        /\ crdt' = [crdt EXCEPT ![r] = ApplyOperation(res.crdt, res.op)]
        /\ last' = [kind |-> "insert", r |-> r, s |-> 0, added |-> 1]
        /\ UNCHANGED <<engineVars, hubVars, clockVars>>

LocalDelete(r, position, now) ==
    LET res == CreateDeleteOperation(crdt[r], r, position, 1, now)
    IN  /\ crdt[r].Clock[r] < MaxClock
        /\ Created(Replicas) < MaxOps
        /\ Len(crdt[r].Operations) < MaxLog
        /\ crdt' = [crdt EXCEPT ![r] = ApplyOperation(res.crdt, res.op)]
        /\ last' = [kind |-> "delete", r |-> r, s |-> 0, added |-> 1]
        /\ UNCHANGED <<engineVars, hubVars, clockVars>>

\* An operation some replica holds is delivered to replica r.
CallApplyOperation(r, op) ==
    /\ Len(crdt[r].Operations) < MaxLog
    /\ crdt' = [crdt EXCEPT ![r] = ApplyOperation(crdt[r], op)]
    /\ last' = [kind |-> "apply", r |-> r, s |-> 0, added |-> 1]
    /\ UNCHANGED <<engineVars, hubVars, clockVars>>

CallMerge(r, s) ==
    LET res == Merge(crdt[r], crdt[s])
    IN  /\ r # s
        /\ Len(res.Operations) <= MaxLog
        /\ crdt' = [crdt EXCEPT ![r] = res]
        /\ last' = [kind |-> "merge", r |-> r, s |-> s,
                    added |-> Len(res.Operations) - Len(crdt[r].Operations)]
        /\ UNCHANGED <<engineVars, hubVars, clockVars>>

Next ==
    \/ \E r \in Replicas, p \in Positions, t \in Times :
          LocalInsert(r, p, t)
    \/ \E r \in Replicas, p \in Positions, t \in Times :
          LocalDelete(r, p, t)
    \/ \E r \in Replicas, op \in Known : CallApplyOperation(r, op)
    \/ \E r \in Replicas, s \in Replicas : CallMerge(r, s)

Spec == Init /\ [][Next]_vars

\* --------------------------------------------- the server and its clients
\* Requests served one at a time, each to its end; every call on the store
\* succeeds.
\* Note ids are fresh (uuid, or time and random digits on the client).
FreshNote(n) ==
    /\ ~store[n].Exists
    /\ \A c \in Clients : ~local[c][n].Exists

\* The editor of a client edits the text it shows: an insert lands inside or
\* at the end of the text, a delete on one of its runes.
InRange(text, type, position) ==
    IF type = "insert" THEN position <= Len(text) ELSE position < Len(text)

\* The notes a client sends: its whole cache.
RECURSIVE CacheFrom(_, _)
CacheFrom(c, n) ==
    IF n > NumNotes THEN <<>>
    ELSE (IF local[c][n].Exists THEN <<local[c][n]>> ELSE <<>>) \o CacheFrom(c, n + 1)

\* handleSyncResponse: the cache and the last-sync clocks after a response.
JsAdoptNotes(cache, resp) ==
    [n \in NoteIDs |-> IF resp.Notes[n].Exists THEN resp.Notes[n] ELSE cache[n]]

JsAdoptClocks(clocks, resp) ==
    [n \in NoteIDs |->
        IF resp.Notes[n].Exists /\ ~resp.Clock[n].IsNil
        THEN resp.Clock[n] ELSE clocks[n]]

\* The loop of Engine.Sync over the notes of the request, from note i on:
\* the store, the conflicts and the logged branches when it ends.
RECURSIVE SyncLoop(_, _, _, _, _, _)
SyncLoop(st, notes, i, conflicts, branches, saved) ==
    IF i > Len(notes)
    THEN [store |-> st, conflicts |-> conflicts, branches |-> branches,
          saved |-> saved]
    ELSE LET o == syncNote(GetNote(st, notes[i].ID), notes[i])
         IN  SyncLoop(IF o.save THEN SaveNote(st, o.note) ELSE st,
                      notes, i + 1,
                      IF o.hasConflict THEN Append(conflicts, o.conflict)
                      ELSE conflicts,
                      Append(branches, o.branch),
                      IF o.save THEN saved \cup {notes[i].ID} ELSE saved)

\* The ids a request persists: the operations of every note it saved.
SavedIDs(notes, branches, n) ==
    UNION {OpIDs(notes[i].CRDT.Operations) :
              i \in {j \in 1 .. Len(notes) :
                        notes[j].ID = n /\ branches[j] # "before"}}

\* POST /api/notes/create: Engine.CreateNote, one SaveNote.
CreateNote(n, c, content, now) ==
    LET note == EngineCreateNote(n, content, c, now)
    IN  /\ FreshNote(n)
        /\ content # <<>> => nextOp < MaxEdits
        /\ store' = SaveNote(store, note)
        /\ nextOp' = IF content # <<>> THEN nextOp + 1 ELSE nextOp
        /\ accepted' = [accepted EXCEPT ![n] = OpIDs(note.CRDT.Operations)]
        /\ out' = [NoOut EXCEPT !.kind = "create", !.c = c, !.saved = {n}]
        /\ UNCHANGED <<local, lastSync, calls, crdtVars, hubVars, clockVars>>

\* Engine.DeleteNote: the soft delete.
SoftDelete(n) ==
    /\ store[n].Exists /\ ~store[n].Deleted
    /\ store' = DeleteNote(store, n)
    /\ out' = [NoOut EXCEPT !.kind = "delete"]
    /\ UNCHANGED <<local, lastSync, calls, nextOp, accepted, crdtVars, hubVars, clockVars>>

\* createNote on a client that is offline.
ClientCreateNote(c, n, content) ==
    /\ FreshNote(n)
    /\ calls[c].kind = "idle"
    /\ local' = [local EXCEPT ![c][n] = JsCreateNote(n, content, c)]
    /\ UNCHANGED <<store, lastSync, calls, nextOp, accepted, out, crdtVars, hubVars, clockVars>>

\* editNote on a client that is offline: the operation stays in the cache.
ClientEditNote(c, n, type, position, now) ==
    LET res == JsEditNote(local[c][n], c, type, position, Typed(c), now, nextOp + 1)
    IN  /\ local[c][n].Exists
        /\ nextOp < MaxEdits
        /\ Len(local[c][n].CRDT.Operations) < MaxLog
        /\ calls[c].kind = "idle"
        /\ InRange(local[c][n].Content, type, position)
        /\ local' = [local EXCEPT ![c][n] = res.note]
        /\ nextOp' = nextOp + 1
        /\ UNCHANGED <<store, lastSync, calls, accepted, out, crdtVars, hubVars, clockVars>>

\* editNote on a client that is online, served to its end before any other
\* request: handleEdit and Engine.ApplyOperation.
LiveEdit(c, n, type, position, now) ==
    LET res == JsEditNote(local[c][n], c, type, position, Typed(c), now, nextOp + 1)
        found == GetNote(store, n)
        note == EngineApply(found, res.op)
    IN  /\ local[c][n].Exists
        /\ nextOp < MaxEdits
        /\ Len(local[c][n].CRDT.Operations) < MaxLog
        /\ calls[c].kind = "idle"
        /\ InRange(local[c][n].Content, type, position)
        /\ found.Exists => Len(note.CRDT.Operations) <= MaxLog
        /\ local' = [local EXCEPT ![c][n] = res.note]
        /\ nextOp' = nextOp + 1
        /\ store' = IF found.Exists THEN SaveNote(store, note) ELSE store
        /\ accepted' = IF found.Exists
                       THEN [accepted EXCEPT ![n] = @ \cup {res.op.ID}]
                       ELSE accepted
        /\ out' = [NoOut EXCEPT !.kind = "edit", !.c = c, !.op = res.op,
                                !.saved = IF found.Exists THEN {n} ELSE {},
                                !.err = ~found.Exists]
        /\ UNCHANGED <<lastSync, calls, crdtVars, hubVars, clockVars>>

\* sync on a client, served to its end before any other request: Engine.Sync,
\* then handleSyncResponse.
Sync(c) ==
    LET notes == CacheFrom(c, 1)
        loop == SyncLoop(store, notes, 1, <<>>, <<>>, {})
        resp == SyncFilter(loop.store, lastSync[c],
                           [EmptyResponse EXCEPT !.Conflicts = loop.conflicts])
    IN  /\ calls[c].kind = "idle"
        /\ \A n \in NoteIDs : Len(loop.store[n].CRDT.Operations) <= MaxLog
        /\ store' = loop.store
        /\ accepted' = [n \in NoteIDs |->
                           accepted[n] \cup SavedIDs(notes, loop.branches, n)]
        /\ local' = [local EXCEPT ![c] = JsAdoptNotes(local[c], resp)]
        /\ lastSync' = [lastSync EXCEPT ![c] = JsAdoptClocks(lastSync[c], resp)]
        /\ out' = [NoOut EXCEPT !.kind = "sync", !.c = c,
                                !.branches = loop.branches,
                                !.saved = loop.saved, !.resp = resp,
                                !.lastSync = lastSync[c]]
        /\ UNCHANGED <<calls, nextOp, crdtVars, hubVars, clockVars>>

NextEngine ==
    \/ \E n \in NoteIDs, c \in Clients, t \in Stamps :
          \E content \in {<<>>, Typed(c)} : CreateNote(n, c, content, t)
    \/ \E n \in NoteIDs : SoftDelete(n)
    \/ \E c \in Clients, n \in NoteIDs :
          \E content \in {<<>>, Typed(c)} : ClientCreateNote(c, n, content)
    \/ \E c \in Clients, n \in NoteIDs, type \in {"insert", "delete"},
          p \in Positions, t \in Stamps : ClientEditNote(c, n, type, p, t)
    \/ \E c \in Clients, n \in NoteIDs, type \in {"insert", "delete"},
          p \in Positions, t \in Stamps : LiveEdit(c, n, type, p, t)
    \/ \E c \in Clients : Sync(c)

SpecEngine == Init /\ [][NextEngine]_vars

\* ------------------------------------- requests served by goroutines
\* Each request runs on its own goroutine (net/http per request, readPump
\* per websocket); a step is one call on the store, and the steps of
\* different requests interleave.  calls[c] is the request of client c.

\* editNote on a client that is online: the operation goes out on the socket.
EditSend(c, n, type, position, now) ==
    LET res == JsEditNote(local[c][n], c, type, position, Typed(c), now, nextOp + 1)
    IN  /\ local[c][n].Exists
        /\ nextOp < MaxRaceEdits
        /\ Len(local[c][n].CRDT.Operations) < MaxLog
        /\ calls[c].kind = "idle"
        /\ InRange(local[c][n].Content, type, position)
        /\ local' = [local EXCEPT ![c][n] = res.note]
        /\ nextOp' = nextOp + 1
        /\ calls' = [calls EXCEPT ![c] =
                        [Idle EXCEPT !.kind = "edit", !.pc = "get",
                                     !.noteID = n, !.op = res.op]]
        /\ UNCHANGED <<store, lastSync, accepted, out, crdtVars, hubVars, clockVars>>

\* editNote on a client that is offline, while requests interleave.
EditOffline(c, n, type, position, now) ==
    nextOp < MaxRaceEdits /\ ClientEditNote(c, n, type, position, now)

\* Engine.ApplyOperation: e.store.GetNote.
EditGet(c) ==
    LET found == GetNote(store, calls[c].noteID)
    IN  /\ calls[c].kind = "edit" /\ calls[c].pc = "get"
        /\ calls' = [calls EXCEPT ![c] =
                        IF found.Exists
                        THEN [@ EXCEPT !.pc = "save", !.serverNote = found]
                        ELSE [@ EXCEPT !.pc = "done", !.err = TRUE]]
        /\ UNCHANGED <<store, local, lastSync, nextOp, accepted, out, crdtVars, hubVars, clockVars>>

\* Engine.ApplyOperation: ApplyOperation on the note it loaded, then SaveNote.
EditSave(c) ==
    LET note == EngineApply(calls[c].serverNote, calls[c].op)
    IN  /\ calls[c].kind = "edit" /\ calls[c].pc = "save"
        /\ store' = SaveNote(store, note)
        /\ accepted' = [accepted EXCEPT ![note.ID] = @ \cup {calls[c].op.ID}]
        /\ calls' = [calls EXCEPT ![c].pc = "done"]
        /\ UNCHANGED <<local, lastSync, nextOp, out, crdtVars, hubVars, clockVars>>

\* handleEdit returns.
EditReturn(c) ==
    /\ calls[c].kind = "edit" /\ calls[c].pc = "done"
    /\ calls' = [calls EXCEPT ![c] = Idle]
    /\ UNCHANGED <<store, local, lastSync, nextOp, accepted, out, crdtVars, hubVars, clockVars>>

\* sync on a client: the request carries its cache and its last-sync clocks.
SyncSend(c) ==
    LET notes == CacheFrom(c, 1)
    IN  /\ calls[c].kind = "idle"
        /\ calls' = [calls EXCEPT ![c] =
                        [Idle EXCEPT !.kind = "sync",
                                     !.pc = IF notes = <<>> THEN "filter" ELSE "get",
                                     !.notes = notes, !.lastSync = lastSync[c],
                                     !.i = 1]]
        /\ UNCHANGED <<store, local, lastSync, nextOp, accepted, out, crdtVars, hubVars, clockVars>>

\* syncNote: e.store.GetNote for the i-th note of the request.
SyncGet(c) ==
    /\ calls[c].kind = "sync" /\ calls[c].pc = "get"
    /\ calls' = [calls EXCEPT ![c].pc = "decide",
                              ![c].serverNote =
                                  GetNote(store, calls[c].notes[calls[c].i].ID)]
    /\ UNCHANGED <<store, local, lastSync, nextOp, accepted, out, crdtVars, hubVars, clockVars>>

\* syncNote: the branch on the note it loaded, and its SaveNote.
SyncDecide(c) ==
    LET call == calls[c]
        clientNote == call.notes[call.i]
        o == syncNote(call.serverNote, clientNote)
    IN  /\ call.kind = "sync" /\ call.pc = "decide"
        /\ o.save => Len(o.note.CRDT.Operations) <= MaxLog
        /\ store' = IF o.save THEN SaveNote(store, o.note) ELSE store
        /\ accepted' = IF o.save
                       THEN [accepted EXCEPT ![clientNote.ID] =
                                @ \cup OpIDs(clientNote.CRDT.Operations)]
                       ELSE accepted
        /\ calls' = [calls EXCEPT ![c] =
                        [@ EXCEPT !.pc = IF call.i = Len(call.notes)
                                         THEN "filter" ELSE "get",
                                  !.i = call.i + 1,
                                  !.branch = o.branch,
                                  !.resp.Conflicts =
                                      IF o.hasConflict
                                      THEN Append(@, o.conflict) ELSE @]]
        /\ UNCHANGED <<local, lastSync, nextOp, out, crdtVars, hubVars, clockVars>>

\* Sync: GetAllNotes and the response filter.
SyncRespond(c) ==
    /\ calls[c].kind = "sync" /\ calls[c].pc = "filter"
    /\ calls' = [calls EXCEPT ![c].pc = "done",
                              ![c].resp = SyncFilter(store, calls[c].lastSync,
                                                     calls[c].resp)]
    /\ UNCHANGED <<store, local, lastSync, nextOp, accepted, out, crdtVars, hubVars, clockVars>>

\* handleSyncResponse on the client.
SyncAdopt(c) ==
    /\ calls[c].kind = "sync" /\ calls[c].pc = "done"
    /\ local' = [local EXCEPT ![c] = JsAdoptNotes(local[c], calls[c].resp)]
    /\ lastSync' = [lastSync EXCEPT ![c] = JsAdoptClocks(lastSync[c], calls[c].resp)]
    /\ calls' = [calls EXCEPT ![c] = Idle]
    /\ UNCHANGED <<store, nextOp, accepted, out, crdtVars, hubVars, clockVars>>

NextRace ==
    \/ \E n \in NoteIDs, c \in Clients, t \in Stamps :
          \E content \in {<<>>, Typed(c)} : CreateNote(n, c, content, t)
    \/ \E c \in Clients, n \in NoteIDs, type \in {"insert", "delete"},
          p \in Positions, t \in Stamps : EditOffline(c, n, type, p, t)
    \/ \E c \in Clients, n \in NoteIDs, type \in {"insert", "delete"},
          p \in Positions, t \in Stamps : EditSend(c, n, type, p, t)
    \/ \E c \in Clients : EditGet(c)
    \/ \E c \in Clients : EditSave(c)
    \/ \E c \in Clients : EditReturn(c)
    \/ \E c \in Clients : SyncSend(c)
    \/ \E c \in Clients : SyncGet(c)
    \/ \E c \in Clients : SyncDecide(c)
    \/ \E c \in Clients : SyncRespond(c)
    \/ \E c \in Clients : SyncAdopt(c)

SpecRace == Init /\ [][NextRace]_vars

\* ------------------------------------------------- the websocket server
\* A step is one channel operation, one socket call or one critical section
\* of clientsMux.  An unrecovered panic ends the process: nothing runs after.

\* HandleWebSocket, for the next connection, under clientsMux.Lock.
HandleWebSocket(c, clientID) ==
    /\ ~panicked /\ ~hub.busy
    /\ conns[c].state = "unused"
    /\ \A d \in Conns : d < c => conns[d].state # "unused"
    /\ conns' = [conns EXCEPT ![c] = NewConn(clientID)]
    /\ clients' = [clients EXCEPT ![clientID] = c]
    /\ UNCHANGED <<broadcast, hub, panicked, nextMsg, crdtVars, engineVars,
                   clockVars>>

\* readPump reads an "edit" frame and handleEdit calls Engine.ApplyOperation,
\* which returns an error or nil (applied).
ReadEdit(c, applied) ==
    /\ ~panicked
    /\ conns[c].reader = "read" /\ ~conns[c].connClosed
    /\ nextMsg < MaxMsgs
    /\ nextMsg' = nextMsg + 1
    /\ conns' = IF applied
                THEN [conns EXCEPT ![c].reader = "broadcast",
                                   ![c].pending = [Type |-> "edit", from |-> c,
                                                   seq |-> nextMsg + 1]]
                ELSE conns
    /\ UNCHANGED <<clients, broadcast, hub, panicked, crdtVars, engineVars,
                   clockVars>>

\* handleEdit: c.server.broadcast <- msg, which waits for room.
PushBroadcast(c) ==
    /\ ~panicked
    /\ conns[c].reader = "broadcast"
    /\ Len(broadcast) < BroadcastCap
    /\ broadcast' = Enqueue(broadcast, conns[c].pending)
    /\ conns' = [conns EXCEPT ![c].reader = "read", ![c].pending = NoMsg]
    /\ UNCHANGED <<clients, hub, panicked, nextMsg, crdtVars, engineVars,
                   clockVars>>

\* readPump reads a "sync" frame and handleSyncRequest calls Engine.Sync,
\* which returns an error or a response (served).
ReadSync(c, served) ==
    /\ ~panicked
    /\ conns[c].reader = "read" /\ ~conns[c].connClosed
    /\ nextMsg < MaxMsgs
    /\ nextMsg' = nextMsg + 1
    /\ conns' = IF served
                THEN [conns EXCEPT ![c].reader = "reply",
                                   ![c].pending = [Type |-> "sync_response",
                                                   from |-> c,
                                                   seq |-> nextMsg + 1]]
                ELSE conns
    /\ UNCHANGED <<clients, broadcast, hub, panicked, crdtVars, engineVars,
                   clockVars>>

\* handleSyncRequest: c.send <- response, which waits for room and panics on
\* a closed channel.
Reply(c) ==
    /\ ~panicked
    /\ conns[c].reader = "reply"
    /\ conns[c].send.closed \/ Len(conns[c].send.buf) < SendCap
    /\ IF conns[c].send.closed
       THEN /\ panicked' = TRUE
            /\ UNCHANGED conns
       ELSE /\ conns' = [conns EXCEPT
                            ![c].send.buf = Enqueue(@, conns[c].pending),
                            ![c].reader = "read", ![c].pending = NoMsg]
            /\ UNCHANGED panicked
    /\ UNCHANGED <<clients, broadcast, hub, nextMsg, crdtVars, engineVars,
                   clockVars>>

\* readPump: ReadJSON fails (the peer left, or the socket was closed here);
\* the deferred function deletes clients[c.ID] under clientsMux.Lock and
\* closes the socket.
ReadFail(c) ==
    /\ ~panicked /\ ~hub.busy
    /\ conns[c].reader = "read"
    /\ clients' = [clients EXCEPT ![conns[c].ID] = 0]
    /\ conns' = [conns EXCEPT ![c].reader = "done", ![c].connClosed = TRUE]
    /\ UNCHANGED <<broadcast, hub, panicked, nextMsg, crdtVars, engineVars,
                   clockVars>>

\* writePump: one turn of for msg := range c.send with a message; WriteJSON
\* succeeds (written) or fails, and fails on a closed socket.
WriteMsg(c, written) ==
    /\ ~panicked
    /\ conns[c].writer = "write"
    /\ conns[c].send.buf # <<>>
    /\ conns' = IF written /\ ~conns[c].connClosed
                THEN [conns EXCEPT ![c].send.buf = Tail(@),
                                   ![c].wire = Append(@, Head(conns[c].send.buf))]
                ELSE [conns EXCEPT ![c].send.buf = Tail(@),
                                   ![c].writer = "done",
                                   ![c].connClosed = TRUE]
    /\ UNCHANGED <<clients, broadcast, hub, panicked, nextMsg, crdtVars,
                   engineVars, clockVars>>

\* writePump: the range ends on the closed and drained channel; the deferred
\* conn.Close runs.
WriterExit(c) ==
    /\ ~panicked
    /\ conns[c].writer = "write"
    /\ conns[c].send.buf = <<>> /\ conns[c].send.closed
    /\ conns' = [conns EXCEPT ![c].writer = "done", ![c].connClosed = TRUE]
    /\ UNCHANGED <<clients, broadcast, hub, panicked, nextMsg, crdtVars,
                   engineVars, clockVars>>

\* A range that leaves out the connection the message came from.
FanOutTargetsNoEcho(reg, msg) ==
    {id \in Clients : reg[id] # 0 /\ reg[id] # msg.from}

\* handleBroadcast: the keys that for _, client := range s.clients yields.
FanOutTargets(reg, msg) == {id \in Clients : reg[id] # 0}

\* handleBroadcast: msg := <-s.broadcast and clientsMux.RLock.
FanOutStart ==
    /\ ~panicked /\ ~hub.busy
    /\ broadcast # <<>>
    /\ broadcast' = Tail(broadcast)
    /\ hub' = [busy |-> TRUE, msg |-> Head(broadcast),
               todo |-> FanOutTargets(clients, Head(broadcast)),
               snapshot |-> Registered(clients),
               offered |-> {}, dropped |-> {}]
    /\ UNCHANGED <<clients, conns, panicked, nextMsg, crdtVars, engineVars,
                   clockVars>>

\* handleBroadcast: the select for one entry of the map, in the order the
\* range yields them.
FanOutStep(clientID) ==
    LET c == clients[clientID]
        try == TrySend(conns[c].send, hub.msg, SendCap)
    IN  /\ ~panicked /\ hub.busy
        /\ clientID \in hub.todo
        /\ IF try.res = "sent"
           THEN /\ conns' = [conns EXCEPT ![c].send = try.ch]
                /\ UNCHANGED <<clients, panicked>>
           ELSE IF try.res = "full"
           THEN /\ conns' = [conns EXCEPT ![c].send.closed = TRUE]
                /\ clients' = [clients EXCEPT ![clientID] = 0]
                /\ UNCHANGED panicked
           ELSE /\ panicked' = TRUE
                /\ UNCHANGED <<clients, conns>>
        /\ hub' = [hub EXCEPT !.todo = @ \ {clientID},
                              !.offered = @ \cup {c},
                              !.dropped = IF try.res = "full"
                                          THEN @ \cup {c} ELSE @]
        /\ UNCHANGED <<broadcast, nextMsg, crdtVars, engineVars, clockVars>>

\* handleBroadcast: the range is over; clientsMux.RUnlock.
FanOutEnd ==
    /\ ~panicked /\ hub.busy
    /\ hub.todo = {}
    /\ hub' = [hub EXCEPT !.busy = FALSE]
    /\ UNCHANGED <<clients, conns, broadcast, panicked, nextMsg, crdtVars,
                   engineVars, clockVars>>

NextHub ==
    \/ \E c \in Conns, id \in Clients : HandleWebSocket(c, id)
    \/ \E c \in Conns, applied \in BOOLEAN : ReadEdit(c, applied)
    \/ \E c \in Conns : PushBroadcast(c)
    \/ \E c \in Conns, served \in BOOLEAN : ReadSync(c, served)
    \/ \E c \in Conns : Reply(c)
    \/ \E c \in Conns : ReadFail(c)
    \/ \E c \in Conns, written \in BOOLEAN : WriteMsg(c, written)
    \/ \E c \in Conns : WriterExit(c)
    \/ FanOutStart
    \/ \E id \in Clients : FanOutStep(id)
    \/ FanOutEnd

SpecHub == Init /\ [][NextHub]_vars

\* The Go scheduler runs every goroutine that can take a step: a writePump
\* whose channel has a message or is closed, and the broadcast goroutine.
\* Readers wait for their peers, who owe the server nothing.
HubFairness ==
    /\ \A c \in Conns :
          /\ WF_vars(\E written \in BOOLEAN : WriteMsg(c, written))
          /\ WF_vars(WriterExit(c))
    /\ WF_vars(FanOutStart \/ (\E id \in Clients : FanOutStep(id)) \/ FanOutEnd)

SpecHubFair == Init /\ [][NextHub]_vars /\ HubFairness

\* ----------------------------------------- two replicas, one document
\* TestCRDTConcurrentInserts and the two-tab walk-through of the README: both
\* replicas start from one insert of "AB" by client 1; replica 1 inserts "X"
\* at 1 and replica 2 inserts "Y" at 1, neither having the other's; the
\* operations are exchanged by ApplyOperation or Merge, and one replica's
\* document is reconciled against the other's by syncNote.  time.Now() of
\* each operation is an input.
Holds(r, content) ==
    \E i \in 1 .. Len(crdt[r].Operations) :
        crdt[r].Operations[i].Content = content

\* The document of replica r: its clock is the merge of its operations' clocks.
NoteOf(r) ==
    [NewNote(1, crdt[r].Text) EXCEPT !.CRDT = crdt[r], !.Clock = crdt[r].Clock]

\* op0 := c1.CreateInsertOperation("client1", 0, "AB"); both apply it.
ScnSeed(now) ==
    LET res == CreateInsertOperation(crdt[1], 1, 0, <<"A", "B">>, now)
    IN  /\ last.kind = "new"
        /\ crdt' = [r \in Replicas |->
                       IF r = 1 THEN ApplyOperation(res.crdt, res.op)
                       ELSE IF r = 2 THEN ApplyOperation(crdt[r], res.op)
                       ELSE crdt[r]]
        /\ last' = [kind |-> "seed", r |-> 1, s |-> 2, added |-> 1]
        /\ UNCHANGED <<engineVars, hubVars, clockVars>>

\* op1 := c1.CreateInsertOperation("client1", 1, "X"); c1.ApplyOperation(op1).
ScnInsertX(now) ==
    LET res == CreateInsertOperation(crdt[1], 1, 1, <<"X">>, now)
    IN  /\ last.kind # "new"
        /\ ~Holds(1, <<"X">>) /\ ~Holds(1, <<"Y">>)
        /\ crdt' = [crdt EXCEPT ![1] = ApplyOperation(res.crdt, res.op)]
        /\ last' = [kind |-> "insert", r |-> 1, s |-> 0, added |-> 1]
        /\ UNCHANGED <<engineVars, hubVars, clockVars>>

\* op2 := c2.CreateInsertOperation("client2", 1, "Y"); c2.ApplyOperation(op2).
ScnInsertY(now) ==
    LET res == CreateInsertOperation(crdt[2], 2, 1, <<"Y">>, now)
    IN  /\ last.kind # "new"
        /\ ~Holds(2, <<"X">>) /\ ~Holds(2, <<"Y">>)
        /\ crdt' = [crdt EXCEPT ![2] = ApplyOperation(res.crdt, res.op)]
        /\ last' = [kind |-> "insert", r |-> 2, s |-> 0, added |-> 1]
        /\ UNCHANGED <<engineVars, hubVars, clockVars>>

Edited == Holds(1, <<"X">>) /\ Holds(2, <<"Y">>)

\* c1.ApplyOperation(op2) or c2.ApplyOperation(op1): replica r applies the
\* operation of replica s that it does not hold.
ScnDeliver(r, s) ==
    /\ Edited
    /\ r \in {1, 2} /\ s \in {1, 2} /\ r # s
    /\ \E i \in 1 .. Len(crdt[s].Operations) :
          /\ crdt[s].Operations[i].ClientID = s
          /\ crdt[s].Operations[i].ID \notin OpIDs(crdt[r].Operations)
          /\ crdt' = [crdt EXCEPT ![r] = ApplyOperation(@, crdt[s].Operations[i])]
    /\ last' = [kind |-> "apply", r |-> r, s |-> s, added |-> 1]
    /\ UNCHANGED <<engineVars, hubVars, clockVars>>

\* Replica r merges the CRDT of replica s.
ScnMerge(r, s) ==
    LET res == Merge(crdt[r], crdt[s])
    IN  /\ Edited
        /\ r \in {1, 2} /\ s \in {1, 2} /\ r # s
        /\ crdt' = [crdt EXCEPT ![r] = res]
        /\ last' = [kind |-> "merge", r |-> r, s |-> s,
                    added |-> Len(res.Operations) - Len(crdt[r].Operations)]
        /\ UNCHANGED <<engineVars, hubVars, clockVars>>

\* Engine.Sync with the document of replica r as the request and the
\* document of replica s as the stored one.
ScnReconcile(r, s) ==
    LET st == [n \in NoteIDs |-> IF n = 1 THEN NoteOf(s) ELSE NoNote]
        loop == SyncLoop(st, <<NoteOf(r)>>, 1, <<>>, <<>>, {})
    IN  /\ Edited
        /\ r \in {1, 2} /\ s \in {1, 2} /\ r # s
        /\ crdt' = [crdt EXCEPT ![s] = loop.store[1].CRDT]
        /\ last' = [kind |-> "reconcile", r |-> r, s |-> s,
                    added |-> Len(loop.store[1].CRDT.Operations)
                                  - Len(crdt[s].Operations)]
        /\ out' = [NoOut EXCEPT !.kind = "reconcile", !.c = r,
                                !.branches = loop.branches,
                                !.saved = loop.saved,
                                !.resp.Conflicts = loop.conflicts]
        /\ UNCHANGED <<store, local, lastSync, calls, nextOp, accepted,
                       hubVars, clockVars>>

\* Replica r asks replica s for the operations since r's own clock:
\* s.GetOperationsSince(r.Clock).
ScnSince(r, s) ==
    /\ Edited
    /\ r \in {1, 2} /\ s \in {1, 2}
    /\ last' = [kind |-> "since", r |-> r, s |-> s, added |-> 0,
                since |-> crdt[r].Clock,
                ops |-> GetOperationsSince(crdt[s].Operations, crdt[r].Clock)]
    /\ UNCHANGED <<crdt, engineVars, hubVars, clockVars>>

NextScenario ==
    \/ \E t \in Times : ScnSeed(t)
    \/ \E t \in Times : ScnInsertX(t)
    \/ \E t \in Times : ScnInsertY(t)
    \/ \E r \in Replicas, s \in Replicas : ScnDeliver(r, s)
    \/ \E r \in Replicas, s \in Replicas : ScnMerge(r, s)
    \/ \E r \in Replicas, s \in Replicas : ScnReconcile(r, s)
    \/ \E r \in Replicas, s \in Replicas : ScnSince(r, s)

SpecScenario == Init /\ [][NextScenario]_vars

\* ------------------------------------------- the CRDT methods, one by one
\* CreateInsertOperation, CreateDeleteOperation, ApplyOperation and Merge
\* called on the replicas in any order: an operation that was created is
\* applied by whoever receives it, its creator included, or by nobody.
\* last.pool holds the operations returned so far.
CallCreate(r, type, now) ==
    LET res == IF type = "insert"
               THEN CreateInsertOperation(crdt[r], r, 0, Typed(r), now)
               ELSE CreateDeleteOperation(crdt[r], r, 0, 1, now)
        pool == IF last.kind = "new" THEN {} ELSE last.pool
    IN  /\ crdt[r].Clock[r] < MaxClock
        /\ crdt' = [crdt EXCEPT ![r] = res.crdt]
        /\ last' = [kind |-> "create", r |-> r, s |-> 0, added |-> 0,
                    pool |-> pool \cup {res.op}]
        /\ UNCHANGED <<engineVars, hubVars, clockVars>>

CallApply(r, op) ==
    /\ last.kind # "new"
    /\ op \in last.pool
    /\ Len(crdt[r].Operations) < MaxCallLog
    /\ crdt' = [crdt EXCEPT ![r] = ApplyOperation(crdt[r], op)]
    /\ last' = [kind |-> "apply", r |-> r, s |-> 0, added |-> 1,
                pool |-> last.pool]
    /\ UNCHANGED <<engineVars, hubVars, clockVars>>

CallMergeInto(r, s) ==
    LET res == Merge(crdt[r], crdt[s])
    IN  /\ last.kind # "new"
        /\ r # s
        /\ Len(res.Operations) <= MaxCallLog
        /\ crdt' = [crdt EXCEPT ![r] = res]
        /\ last' = [kind |-> "merge", r |-> r, s |-> s,
                    added |-> Len(res.Operations) - Len(crdt[r].Operations),
                    pool |-> last.pool]
        /\ UNCHANGED <<engineVars, hubVars, clockVars>>

Pool == IF last.kind = "new" THEN {} ELSE last.pool

NextCalls ==
    \/ \E r \in Replicas, type \in {"insert", "delete"}, t \in Stamps :
          CallCreate(r, type, t)
    \/ \E r \in Replicas, op \in Pool : CallApply(r, op)
    \/ \E r \in Replicas, s \in Replicas : CallMergeInto(r, s)

SpecCalls == Init /\ [][NextCalls]_vars

\* ------------------------------------- the websocket server and its engine
\* The server of SpecHub with the frames handed to the engine: handleEdit
\* runs Engine.ApplyOperation in the steps other goroutines can interleave
\* with (GetNote, then SaveNote and SaveOperation), handleSyncRequest runs
\* Engine.Sync, and a storage call can fail.

\* handleEdit / handleSyncRequest after json.Unmarshal: the step the reader
\* takes next, or back to ReadJSON when the payload does not decode.
AfterDecodeAlways(decoded, next) == next

AfterDecode(decoded, next) == IF decoded THEN next ELSE "read"

\* GetNote of Engine.ApplyOperation that makes up the note it does not find.
ApplyGetOrCreate(st, noteID, fault) ==
    IF fault THEN [err |-> TRUE, note |-> NoNote]
    ELSE IF ~GetNote(st, noteID).Exists
    THEN [err |-> FALSE, note |-> NewNote(noteID, <<>>)]
    ELSE [err |-> FALSE, note |-> GetNote(st, noteID)]

\* Engine.ApplyOperation up to its nil check: the error, or the note.
ApplyGet(st, noteID, fault) ==
    IF fault THEN [err |-> TRUE, note |-> NoNote]
    ELSE IF ~GetNote(st, noteID).Exists THEN [err |-> TRUE, note |-> NoNote]
    ELSE [err |-> FALSE, note |-> GetNote(st, noteID)]

\* The rest of Engine.ApplyOperation: the CRDT apply, SaveNote, SaveOperation.
ApplySave(st, note, op, fault) ==
    IF fault = "note" THEN [store |-> st, err |-> TRUE]
    ELSE [store |-> SaveNote(st, EngineApply(note, op)), err |-> fault = "op"]

\* Engine.Sync with a storage call that fails: GetNote or SaveNote of the
\* syncNote of the first note (logged, and the loop continues), or
\* GetAllNotes (returned).
EngineSync(st, notes, reqLastSync, fault) ==
    LET skipped == fault \in {"get", "save"}
        loop == SyncLoop(st, IF skipped THEN Tail(notes) ELSE notes,
                         1, <<>>, <<>>, {})
    IN  [store |-> loop.store,
         err |-> fault = "all",
         resp |-> IF fault = "all" THEN EmptyResponse
                  ELSE SyncFilter(loop.store, reqLastSync,
                                  [EmptyResponse EXCEPT
                                      !.Conflicts = loop.conflicts])]

\* The storage calls a Sync of these notes makes, as the faults it can meet.
SyncFaults(st, notes) ==
    {"none", "all"}
    \cup (IF notes # <<>> THEN {"get"} ELSE {})
    \cup (IF notes # <<>> /\ syncNote(GetNote(st, notes[1].ID), notes[1]).save
          THEN {"save"} ELSE {})

\* The document a client made offline under note id n.
ClientDoc(n, clientID) == EngineCreateNote(n, Typed(clientID), clientID, 0)

\* The operation a client sends for note n: an insert made on the clock of
\* the stored document it last saw.
ClientOp(st, n, clientID, now) ==
    CreateInsertOperation([NewCRDT EXCEPT !.Clock = GetNote(st, n).CRDT.Clock],
                          clientID, 0, Typed(clientID), now).op

\* POST /api/notes/create before any connection edits.
LiveCreateNote(n, clientID) ==
    /\ ~panicked
    /\ ~store[n].Exists
    /\ store' = SaveNote(store, EngineCreateNote(n, Typed(clientID), clientID, 0))
    /\ out' = [NoOut EXCEPT !.kind = "create", !.c = clientID, !.saved = {n}]
    /\ UNCHANGED <<local, lastSync, calls, nextOp, accepted, crdtVars,
                   hubVars, clockVars>>

\* readPump reads an "edit" frame; handleEdit decodes the payload.
LiveReadEdit(c, decoded, n, now) ==
    LET op == ClientOp(store, n, conns[c].ID, now)
        next == AfterDecode(decoded, "apply")
    IN  /\ ~panicked
        /\ conns[c].reader = "read" /\ ~conns[c].connClosed
        /\ nextMsg < MaxLiveMsgs
        /\ nextMsg' = nextMsg + 1
        /\ conns' = IF next = "read" THEN conns
                    ELSE [conns EXCEPT
                             ![c].reader = next,
                             ![c].pending = [Type |-> "edit", from |-> c,
                                             seq |-> nextMsg + 1,
                                             NoteID |-> n, op |-> op,
                                             got |-> NoNote]]
        /\ out' = [NoOut EXCEPT !.kind = "frame", !.c = c, !.err = ~decoded]
        /\ UNCHANGED <<store, local, lastSync, calls, nextOp, accepted,
                       crdtVars, clients, broadcast, hub, panicked, clockVars>>

\* Engine.ApplyOperation: GetNote and the nil check.
LiveEditGet(c, fault) ==
    LET got == ApplyGet(store, conns[c].pending.NoteID, fault)
    IN  /\ ~panicked
        /\ conns[c].reader = "apply"
        /\ conns' = IF got.err
                    THEN [conns EXCEPT ![c].reader = "read",
                                       ![c].pending = NoMsg]
                    ELSE [conns EXCEPT ![c].reader = "save",
                                       ![c].pending.got = got.note]
        /\ out' = [NoOut EXCEPT !.kind = "get", !.c = c, !.err = got.err,
                                !.op = conns[c].pending.op]
        /\ UNCHANGED <<store, local, lastSync, calls, nextOp, accepted,
                       crdtVars, clients, broadcast, hub, panicked, nextMsg,
                       clockVars>>

\* Engine.ApplyOperation: the CRDT apply, SaveNote and SaveOperation, and the
\* return to handleEdit.
LiveEditSave(c, fault) ==
    LET res == ApplySave(store, conns[c].pending.got, conns[c].pending.op, fault)
    IN  /\ ~panicked
        /\ conns[c].reader = "save"
        /\ store' = res.store
        /\ conns' = IF res.err
                    THEN [conns EXCEPT ![c].reader = "read",
                                       ![c].pending = NoMsg]
                    ELSE [conns EXCEPT ![c].reader = "broadcast",
                                       ![c].pending.got = NoNote]
        /\ out' = [NoOut EXCEPT !.kind = "save", !.c = c, !.err = res.err,
                                !.op = conns[c].pending.op]
        /\ UNCHANGED <<local, lastSync, calls, nextOp, accepted, crdtVars,
                       clients, broadcast, hub, panicked, nextMsg, clockVars>>

\* readPump reads a "sync" frame; handleSyncRequest decodes it and calls
\* Engine.Sync.
LiveReadSync(c, decoded, withNote, fault) ==
    LET notes == IF withNote THEN <<ClientDoc(1, conns[c].ID)>> ELSE <<>>
        res == EngineSync(store, notes, [n \in NoteIDs |-> NilClock], fault)
        next == AfterDecode(decoded, IF res.err THEN "read" ELSE "reply")
    IN  /\ ~panicked
        /\ conns[c].reader = "read" /\ ~conns[c].connClosed
        /\ nextMsg < MaxLiveMsgs
        /\ decoded => fault \in SyncFaults(store, notes)
        /\ ~decoded => fault = "none" /\ ~withNote
        /\ nextMsg' = nextMsg + 1
        /\ store' = IF decoded THEN res.store ELSE store
        /\ conns' = IF next = "read" THEN conns
                    ELSE [conns EXCEPT
                             ![c].reader = next,
                             ![c].pending = [Type |-> "sync_response",
                                             from |-> c, seq |-> nextMsg + 1]]
        /\ out' = [NoOut EXCEPT !.kind = "sync", !.c = c,
                                !.err = ~decoded \/ res.err]
        /\ UNCHANGED <<local, lastSync, calls, nextOp, accepted, crdtVars,
                       clients, broadcast, hub, panicked, clockVars>>

NextLive ==
    \/ \E n \in NoteIDs, id \in Clients : LiveCreateNote(n, id)
    \/ \E c \in Conns, id \in Clients : HandleWebSocket(c, id)
    \/ \E c \in Conns, decoded \in BOOLEAN, n \in NoteIDs, t \in Stamps :
          LiveReadEdit(c, decoded, n, t)
    \/ \E c \in Conns, fault \in BOOLEAN : LiveEditGet(c, fault)
    \/ \E c \in Conns, fault \in {"none", "note", "op"} : LiveEditSave(c, fault)
    \/ \E c \in Conns : PushBroadcast(c)
    \/ \E c \in Conns, decoded \in BOOLEAN, withNote \in BOOLEAN,
          fault \in {"none", "get", "save", "all"} :
          LiveReadSync(c, decoded, withNote, fault)
    \/ \E c \in Conns : Reply(c)
    \/ \E c \in Conns : ReadFail(c)
    \/ \E c \in Conns, written \in BOOLEAN : WriteMsg(c, written)
    \/ \E c \in Conns : WriterExit(c)
    \/ FanOutStart
    \/ \E id \in Clients : FanOutStep(id)
    \/ FanOutEnd

SpecLive == Init /\ [][NextLive]_vars

\* ------------------------------------------------------ vector clocks
\* Two clocks drawn from the bounded maps; the methods of VectorClock are
\* called on them.
InitClock ==
    /\ crdt = [r \in Replicas |-> NewCRDT]
    /\ last = NoCall
    /\ store = [n \in NoteIDs |-> NoNote]
    /\ local = [c \in Clients |-> [n \in NoteIDs |-> NoNote]]
    /\ lastSync = [c \in Clients |-> [n \in NoteIDs |-> NilClock]]
    /\ calls = [c \in Clients |-> Idle]
    /\ nextOp = 0
    /\ accepted = [n \in NoteIDs |-> {}]
    /\ out = NoOut
    /\ InitHub
    /\ clockA \in ClockMaps
    /\ clockB \in ClockMaps
    /\ clockCall = NoClockCall

\* clockA.Compare(clockB), clockB.Compare(clockA), HappensBefore and
\* IsConcurrent of the two and of clockA with itself.
ClockCompare ==
    /\ clockCall' =
          [op |-> "Compare", a |-> clockA, b |-> clockB,
           cmp |-> CompareKeys(clockA, clockB),
           rev |-> CompareKeys(clockB, clockA),
           before |-> HappensBefore(Total(clockA), Total(clockB)),
           after |-> HappensBefore(Total(clockB), Total(clockA)),
           selfBefore |-> HappensBefore(Total(clockA), Total(clockA)),
           concurrent |-> IsConcurrent(Total(clockA), Total(clockB)),
           selfConcurrent |-> IsConcurrent(Total(clockA), Total(clockA)),
           id |-> 0, stamp |-> NewVectorClock]
    /\ UNCHANGED <<clockA, clockB, crdtVars, engineVars, hubVars>>

\* clockA.Increment(clientID).
ClockIncrement(clientID) ==
    /\ Lookup(clockA, clientID) < MaxClock
    /\ clockA' = IncrementKey(clockA, clientID)
    /\ clockCall' = [NoClockCall EXCEPT !.op = "Increment", !.id = clientID,
                                        !.a = clockA, !.b = clockA']
    /\ UNCHANGED <<clockB, crdtVars, engineVars, hubVars>>

\* clockA.Update(clockB).
ClockUpdate ==
    /\ clockA' = UpdateKeys(clockA, clockB)
    /\ clockCall' = [NoClockCall EXCEPT !.op = "Update",
                                        !.a = clockA, !.b = clockB]
    /\ UNCHANGED <<clockB, crdtVars, engineVars, hubVars>>

\* CreateInsertOperation or CreateDeleteOperation of a CRDT whose clock is
\* clockA: b is the CRDT's clock after the call, stamp the operation's.
ClockStamp(clientID, type, now) ==
    LET c == [NewCRDT EXCEPT !.Clock = Total(clockA)]
        res == IF type = "insert"
               THEN CreateInsertOperation(c, clientID, 0, Typed(clientID), now)
               ELSE CreateDeleteOperation(c, clientID, 0, 1, now)
    IN  /\ Lookup(clockA, clientID) < MaxClock
        /\ clockCall' = [NoClockCall EXCEPT !.op = type, !.id = clientID,
                                            !.a = clockA,
                                            !.b = res.crdt.Clock,
                                            !.stamp = res.op.Clock]
        /\ UNCHANGED <<clockA, clockB, crdtVars, engineVars, hubVars>>

NextClock ==
    \/ ClockCompare
    \/ \E id \in Clients : ClockIncrement(id)
    \/ ClockUpdate
    \/ \E id \in Clients, type \in {"insert", "delete"}, t \in Times :
          ClockStamp(id, type, t)

SpecClock == InitClock /\ [][NextClock]_vars

\* ------------------------------------------------------------- claims
OpSet(ops) == {ops[i] : i \in 1 .. Len(ops)}

\* The two logs hold the same operations, each exactly once.
SameOpsOnce(l1, l2) ==
    /\ Cardinality(OpSet(l1)) = Len(l1)
    /\ Cardinality(OpSet(l2)) = Len(l2)
    /\ OpSet(l1) = OpSet(l2)

\* C1: two replicas that applied the same operations, each exactly once and
\* in whatever order, to an empty CRDT hold the same Text.
Convergence ==
    \A r1 \in Replicas, r2 \in Replicas :
        SameOpsOnce(crdt[r1].Operations, crdt[r2].Operations)
            => crdt[r1].Text = crdt[r2].Text

\* No neighbour of the replay order is out of order, and the order is a
\* rearrangement of the log.
ReplayOrderOf(sorted, ops) ==
    /\ Len(sorted) = Len(ops)
    /\ \A o \in OpSet(ops) \cup OpSet(sorted) :
          Cardinality({i \in 1 .. Len(ops) : ops[i] = o})
              = Cardinality({i \in 1 .. Len(sorted) : sorted[i] = o})
    /\ \A i \in 1 .. Len(sorted) - 1 : ~Less(sorted[i + 1], sorted[i])

MergeIdempotent ==
    last.kind = "merge" =>
        LET again == Merge(crdt[last.r], crdt[last.s])
        IN  /\ Len(again.Operations) = Len(crdt[last.r].Operations)
            /\ again.Text = crdt[last.r].Text

\* reached: a Merge that imported operations into a target that had its own
MergeIdempotentWitness ==
    /\ last.kind = "merge" /\ last.added > 0
    /\ Len(crdt[last.r].Operations) > last.added

\* The clock relations, stated without Compare.
Dominates(a, b) == \A k \in Clients : a[k] >= b[k]

StrictlyBefore(a, b) == Dominates(b, a) /\ a # b

StrictlyAfter(a, b) == Dominates(a, b) /\ a # b

ConcurrentOrEqual(a, b) == ~StrictlyBefore(a, b) /\ ~StrictlyAfter(a, b)

MaxClockOf(a, b) == [k \in Clients |-> IF a[k] >= b[k] THEN a[k] ELSE b[k]]

ConflictsFor(conflicts, n) ==
    {i \in 1 .. Len(conflicts) : conflicts[i].NoteID = n}

\* Client c sends a note with id n that the server holds.
Reconciles(c, n) == local[c][n].Exists /\ store[n].Exists

\* C2: every operation that a cycle which reported success persisted (a live
\* edit through Engine.ApplyOperation, a reconciliation through syncNote) is
\* in the stored document, however the cycles interleave.
NoLostUpdate ==
    \A n \in NoteIDs :
        store[n].Exists => accepted[n] \subseteq OpIDs(store[n].CRDT.Operations)

\* C5: a reconciliation adds a conflict record for a document exactly when the
\* document is stored and the client clock is concurrent with or equal to the
\* stored clock; then it adds one record, with resolution "merged".
ConflictEmission ==
    [][\A c \in Clients : Sync(c) =>
          \A n \in NoteIDs :
              LET recs == ConflictsFor(out'.resp.Conflicts, n)
              IN  IF Reconciles(c, n)
                     /\ ConcurrentOrEqual(local[c][n].Clock, store[n].Clock)
                  THEN /\ Cardinality(recs) = 1
                       /\ \A i \in recs :
                             out'.resp.Conflicts[i].Resolution = "merged"
                  ELSE recs = {}]_vars

\* reached: a reconciliation of truly concurrent clocks that returned one record
ConflictEmissionWitness ==
    /\ out.kind = "sync" /\ out.branches = <<"merged">>
    /\ Len(out.resp.Conflicts) = 1
    /\ out.resp.Conflicts[1].ClientClock # out.resp.Conflicts[1].ServerClock

InsertsOf(ops) == {o \in OpSet(ops) : o.Type = "insert"}

DeletesOf(ops) == {o \in OpSet(ops) : o.Type = "delete"}

\* content occurs in text
Contains(text, content) ==
    \E i \in 0 .. Len(text) - Len(content) :
        SubSeq(text, i + 1, i + Len(content)) = content

\* No delete of the logs was made by a replica that had seen insert o.
Undeleted(o, ops) == \A d \in DeletesOf(ops) : ~StrictlyAfter(d.Clock, o.Clock)

\* C6: after a reconciliation of concurrent clocks the stored text holds the
\* content of every insert of the client's log and of the server's log.
\* Stated for the inserts that no delete of either log can have aimed at,
\* so that nothing but the replay accounts for a missing one.
NoDataLossOnMerge ==
    [][\A c \in Clients : Sync(c) =>
          \A n \in NoteIDs :
              (/\ Reconciles(c, n)
               /\ ConcurrentOrEqual(local[c][n].Clock, store[n].Clock)
               /\ local[c][n].Clock # store[n].Clock)
              => LET both == local[c][n].CRDT.Operations
                                 \o store[n].CRDT.Operations
                 IN  \A o \in InsertsOf(both) :
                        Undeleted(o, both)
                            => Contains(store'[n].CRDT.Text, o.Content)]_vars

\* C7: when the incoming clock is strictly before the stored clock the stored
\* document is left as it was, nothing is saved and no conflict is returned.
CausalDiscard ==
    [][\A c \in Clients : Sync(c) =>
          \A n \in NoteIDs :
              (Reconciles(c, n) /\ StrictlyBefore(local[c][n].Clock, store[n].Clock))
              => /\ store'[n] = store[n]
                 /\ n \notin out'.saved
                 /\ ConflictsFor(out'.resp.Conflicts, n) = {}]_vars

\* reached: a reconciliation that discarded a client note holding an operation
\* the server has not
CausalDiscardWitness ==
    /\ out.kind = "sync" /\ out.branches = <<"before">>
    /\ out.saved = {}

\* C8: when the incoming clock is strictly after the stored clock the stored
\* ids become the union of the stored and the incoming ids, the stored clock
\* the component-wise maximum, Content the CRDT text; the note is saved and no
\* conflict is returned.
StrictlyAfterMerges ==
    [][\A c \in Clients : Sync(c) =>
          \A n \in NoteIDs :
              (Reconciles(c, n) /\ StrictlyAfter(local[c][n].Clock, store[n].Clock))
              => /\ OpIDs(store'[n].CRDT.Operations)
                        = OpIDs(store[n].CRDT.Operations)
                              \cup OpIDs(local[c][n].CRDT.Operations)
                 /\ store'[n].Clock = MaxClockOf(store[n].Clock, local[c][n].Clock)
                 /\ store'[n].Content = store'[n].CRDT.Text
                 /\ n \in out'.saved
                 /\ ConflictsFor(out'.resp.Conflicts, n) = {}]_vars

\* reached: a catch-up that brought the server an operation it had not
StrictlyAfterMergesWitness ==
    /\ out.kind = "sync" /\ out.branches = <<"after">>
    /\ \E n \in out.saved : Len(store[n].CRDT.Operations) >= 2

\* C9: a note whose id the server does not hold is stored as it was sent
\* (operations, text, clock, content) and no conflict is returned.
NewDocumentStoredAsSent ==
    [][\A c \in Clients : Sync(c) =>
          \A n \in NoteIDs :
              (local[c][n].Exists /\ ~store[n].Exists)
              => /\ store'[n] = local[c][n]
                 /\ n \in out'.saved
                 /\ ConflictsFor(out'.resp.Conflicts, n) = {}]_vars

\* reached: a first upload of a note that holds an operation
NewDocumentStoredAsSentWitness ==
    /\ out.kind = "sync" /\ out.branches = <<"new">>
    /\ \E n \in out.saved : store[n].CRDT.Operations # <<>>

Healthy(c) ==
    /\ conns[c].state = "open" /\ ~conns[c].connClosed
    /\ conns[c].reader # "done" /\ conns[c].writer = "write"
    /\ ~conns[c].send.closed
    /\ \A d \in Conns :
          (conns[d].state = "open" /\ conns[d].ID = conns[c].ID) => d <= c

\* C11: once a connection was dropped for a saturated queue, every other
\* connection with no fault of its own is still served: the process runs and
\* the connection is in the registry, so that it is offered the edits
\* accepted afterwards.
BroadcastIsolation ==
    \A s \in Conns :
        conns[s].send.closed =>
            \A c \in Conns \ {s} :
                Healthy(c) => ~panicked /\ clients[conns[c].ID] = c

\* C12: a step of the fan-out on a connection appends the message to its
\* queue when there is room and otherwise closes the queue and removes the
\* connection from the registry, the queue's content untouched; either way
\* the connection is not tried again; and while the process runs the fan-out
\* can always take its next step: it waits on no queue.
DropAndDisconnect ==
    /\ [](hub.busy /\ ~panicked =>
            /\ \A id \in hub.todo : ENABLED FanOutStep(id)
            /\ hub.todo = {} => ENABLED FanOutEnd)
    /\ [][\A id \in Clients : FanOutStep(id) =>
            LET c == clients[id]
                q == conns[c].send
            IN  /\ id \notin hub'.todo
                /\ c \in hub'.offered
                /\ IF Len(q.buf) < SendCap
                   THEN /\ conns'[c].send.buf = Append(q.buf, hub.msg)
                        /\ ~conns'[c].send.closed
                        /\ clients'[id] = c
                   ELSE /\ conns'[c].send.buf = q.buf
                        /\ conns'[c].send.closed
                        /\ clients'[id] = 0]_vars

\* reached: a fan-out that dropped one connection and served another
DropAndDisconnectWitness ==
    /\ ~hub.busy /\ hub.dropped # {}
    /\ \E c \in hub.offered \ hub.dropped :
          \E i \in 1 .. Len(conns[c].send.buf) : conns[c].send.buf[i] = hub.msg

\* What connection c was sent, in order: the frames written and the queue.
SentTo(c) == conns[c].wire \o conns[c].send.buf

Beyond(op, text) ==
    IF op.Type = "insert" THEN op.Position > Len(text)
    ELSE op.Position >= Len(text)

\* seq without its k-th element
Without(seq, k) == SubSeq(seq, 1, k - 1) \o SubSeq(seq, k + 1, Len(seq))

\* C15 as stated: ApplyOperation of an operation that is beyond the end of
\* the text the CRDT holds appends it, merges its clock and leaves Text as
\* it is.
BoundarySkipOnApply ==
    [][\A r \in Replicas, op \in Known :
          (CallApplyOperation(r, op) /\ Beyond(op, crdt[r].Text))
          => /\ crdt'[r].Operations = Append(crdt[r].Operations, op)
             /\ crdt'[r].Clock = MaxClockOf(crdt[r].Clock, op.Clock)
             /\ crdt'[r].Text = crdt[r].Text]_vars

\* C15, with the text length taken where the code takes it: ApplyOperation
\* appends the operation and merges its clock whatever its position; if, at
\* its turn in the replay order, it is beyond the end of the text replayed so
\* far, Text is what the replay of the log without it gives.
BoundarySkipInReplay ==
    [][\A r \in Replicas, op \in Known :
          CallApplyOperation(r, op)
          => /\ crdt'[r].Operations = Append(crdt[r].Operations, op)
             /\ crdt'[r].Clock = MaxClockOf(crdt[r].Clock, op.Clock)
             /\ LET sorted == SortSlice(crdt'[r].Operations)
                IN  \A k \in 1 .. Len(sorted) :
                       (/\ sorted[k] = op
                        /\ Beyond(op, Replay(SubSeq(sorted, 1, k - 1), 1, <<>>)))
                       => crdt'[r].Text = Replay(Without(sorted, k), 1, <<>>)]_vars

\* reached: an operation applied to a replica whose text is not empty and
\* skipped by the replay although it is not the last in the replay order
BoundarySkipInReplayWitness ==
    /\ last.kind = "apply"
    /\ LET ops == crdt[last.r].Operations
           op == ops[Len(ops)]
           sorted == SortSlice(ops)
       IN  /\ crdt[last.r].Text # <<>>
           /\ \E k \in 1 .. Len(sorted) - 1 :
                 /\ sorted[k] = op
                 /\ Beyond(op, Replay(SubSeq(sorted, 1, k - 1), 1, <<>>))

\* Replica r has applied both concurrent inserts.
HoldsBoth(r) == Holds(r, <<"X">>) /\ Holds(r, <<"Y">>)

\* C16: in the scenario, once each replica has applied both inserts the two
\* texts are equal and are "AXYB" or "AYXB"; and reconciling one replica's
\* document against the other's then returns exactly one conflict record,
\* for that document.
ConcurrentInsertScenario ==
    /\ []((HoldsBoth(1) /\ HoldsBoth(2)) =>
            /\ crdt[1].Text = crdt[2].Text
            /\ crdt[1].Text \in {<<"A", "X", "Y", "B">>, <<"A", "Y", "X", "B">>})
    /\ [][\A r \in Replicas, s \in Replicas :
            (ScnReconcile(r, s) /\ HoldsBoth(1) /\ HoldsBoth(2))
            => /\ Len(out'.resp.Conflicts) = 1
               /\ out'.resp.Conflicts[1].NoteID = 1]_vars

\* reached: both replicas hold both inserts, in different log orders, and a
\* reconciliation of the two documents has returned
ConcurrentInsertScenarioWitness ==
    /\ HoldsBoth(1) /\ HoldsBoth(2)
    /\ crdt[1].Operations # crdt[2].Operations
    /\ last.kind = "reconcile" /\ last.added = 0
    /\ Len(out.resp.Conflicts) = 1

\* The number of entries of a log that carry the id.
Copies(ops, id) == Cardinality({i \in 1 .. Len(ops) : ops[i].ID = id})

ApplyIdempotent ==
    [][\A r \in Replicas : \A op \in Known :
          (/\ CallApplyOperation(r, op)
           /\ \E i \in 1 .. Len(crdt[r].Operations) : crdt[r].Operations[i] = op)
          => crdt'[r].Text = crdt[r].Text]_vars

\* Some key, absent keys read as 0, is smaller in a than in b.
SomeSmaller(a, b) ==
    \E k \in Clients :
        (IF k \in DOMAIN a THEN a[k] ELSE 0) < (IF k \in DOMAIN b THEN b[k] ELSE 0)

\* C19: a.Compare(b) is -1 iff some key is smaller in a and none is smaller
\* in b, 1 iff some key is smaller in b and none in a, and 0 both when keys
\* are smaller on each side and when no key differs; absent keys read as 0,
\* so the result is that of the clocks read at every client id.
CompareSemantics ==
    clockCall.op = "Compare" =>
        LET a == clockCall.a
            b == clockCall.b
        IN  /\ clockCall.cmp \in {-1, 0, 1}
            /\ clockCall.cmp = -1 <=> (SomeSmaller(a, b) /\ ~SomeSmaller(b, a))
            /\ clockCall.cmp = 1 <=> (SomeSmaller(b, a) /\ ~SomeSmaller(a, b))
            /\ (SomeSmaller(a, b) /\ SomeSmaller(b, a)) => clockCall.cmp = 0
            /\ (~SomeSmaller(a, b) /\ ~SomeSmaller(b, a)) => clockCall.cmp = 0
            /\ clockCall.cmp = Compare(Total(a), Total(b))

\* reached: a compared clock lacks a key the other holds above 0 and has a
\* larger key of its own, and Compare returned 0
CompareSemanticsWitness ==
    /\ clockCall.op = "Compare"
    /\ \E k \in DOMAIN clockCall.b \ DOMAIN clockCall.a : clockCall.b[k] > 0
    /\ \E k \in DOMAIN clockCall.a : clockCall.a[k] > Lookup(clockCall.b, k)
    /\ clockCall.cmp = 0

\* C20: a.Compare(b) = -(b.Compare(a)); HappensBefore never holds both ways
\* and never of a clock and itself; IsConcurrent holds exactly when neither
\* clock happens before the other, so a clock is concurrent with itself.
HappensBeforeStrict ==
    clockCall.op = "Compare" =>
        /\ clockCall.cmp = -clockCall.rev
        /\ ~(clockCall.before /\ clockCall.after)
        /\ ~clockCall.selfBefore
        /\ clockCall.concurrent <=> (~clockCall.before /\ ~clockCall.after)
        /\ clockCall.selfConcurrent
        /\ clockCall.before <=> (clockCall.cmp = -1)
        /\ clockCall.after <=> (clockCall.cmp = 1)

\* reached: two different maps that read as equal clocks were compared, and
\* so were two clocks one of which happens before the other
HappensBeforeStrictWitness ==
    /\ clockCall.op = "Compare"
    /\ \/ /\ clockCall.a # clockCall.b
          /\ Total(clockCall.a) = Total(clockCall.b)
          /\ clockCall.concurrent
       \/ clockCall.before /\ ~clockCall.after /\ ~clockCall.concurrent

Larger(x, y) == IF x < y THEN y ELSE x

\* C21: after a.Update(b) every key of a reads max(old a, b), absent keys
\* read as 0; b is unchanged; no component of a is lowered; and a second
\* Update with the same b changes nothing.
UpdateIsMax ==
    clockCall.op = "Update" =>
        /\ \A k \in Clients :
              /\ Lookup(clockA, k)
                     = Larger(Lookup(clockCall.a, k), Lookup(clockCall.b, k))
              /\ Lookup(clockA, k) >= Lookup(clockCall.a, k)
        /\ clockB = clockCall.b
        /\ UpdateKeys(clockA, clockB) = clockA
        /\ Total(clockA) = Update(Total(clockCall.a), Total(clockCall.b))

\* reached: an Update raised one key, created it, and kept another key that
\* was larger in a than in b
UpdateIsMaxWitness ==
    /\ clockCall.op = "Update"
    /\ \E k \in DOMAIN clockA \ DOMAIN clockCall.a : clockA[k] > 0
    /\ \E k \in DOMAIN clockCall.a :
          /\ clockCall.a[k] > Lookup(clockCall.b, k)
          /\ clockA[k] = clockCall.a[k]

\* C22: Increment(id) raises the counter of id by exactly one, from 0 if it
\* is absent, and leaves every other component as it was; a
\* CreateInsertOperation or CreateDeleteOperation call raises the CRDT's
\* clock for the given client by one, nothing else, and stamps the operation
\* with the resulting clock.
IncrementBumpsOne ==
    /\ clockCall.op = "Increment" =>
          /\ DOMAIN clockCall.b = DOMAIN clockCall.a \cup {clockCall.id}
          /\ clockCall.b[clockCall.id] = Lookup(clockCall.a, clockCall.id) + 1
          /\ \A k \in DOMAIN clockCall.a \ {clockCall.id} :
                clockCall.b[k] = clockCall.a[k]
          /\ Total(clockCall.b) = Increment(Total(clockCall.a), clockCall.id)
    /\ clockCall.op \in {"insert", "delete"} =>
          /\ \A k \in Clients :
                clockCall.b[k] = Lookup(clockCall.a, k)
                                    + (IF k = clockCall.id THEN 1 ELSE 0)
          /\ clockCall.stamp = clockCall.b

\* reached: Increment created an absent key beside a key it left alone
IncrementBumpsOneWitness ==
    /\ clockCall.op = "Increment"
    /\ clockCall.id \notin DOMAIN clockCall.a
    /\ clockCall.b[clockCall.id] = 1
    /\ \E k \in DOMAIN clockCall.a : clockCall.a[k] > 0

\* reached: a created operation carries the clock its CRDT was raised to
StampWitness ==
    /\ clockCall.op = "delete"
    /\ clockCall.stamp[clockCall.id] = Lookup(clockCall.a, clockCall.id) + 1
    /\ clockCall.stamp[clockCall.id] > 1

\* Clock vc is causally before or equal to since: no component is larger.
BeforeOrEqual(vc, since) == \A k \in Clients : vc[k] <= since[k]

\* The entries of a log that are not before or equal to since, in log order.
RECURSIVE NotBeforeOrEqual(_, _)
NotBeforeOrEqual(ops, since) ==
    IF ops = <<>> THEN <<>>
    ELSE IF BeforeOrEqual(Head(ops).Clock, since)
         THEN NotBeforeOrEqual(Tail(ops), since)
         ELSE <<Head(ops)>> \o NotBeforeOrEqual(Tail(ops), since)

\* C23: GetOperationsSince(since) returns exactly the logged operations
\* whose clock is not before or equal to since: the strictly-after ones and
\* the concurrent ones, and none that is before or equal.
OperationsSince ==
    last.kind = "since" =>
        last.ops = NotBeforeOrEqual(crdt[last.s].Operations, last.since)

\* C24: a delete removes exactly one character at its position when the
\* position is below the length of the text it acts on, whatever length was
\* given to CreateDeleteOperation: at every delete's turn in the replay, and
\* for a delete created and applied on a replica's own text, the text
\* afterwards is the text before without the character at that position.
SingleCharacterDelete ==
    /\ [](\A r \in Replicas :
            LET sorted == SortSlice(crdt[r].Operations)
            IN  \A k \in 1 .. Len(sorted) :
                   LET before == Replay(SubSeq(sorted, 1, k - 1), 1, <<>>)
                       after == Replay(SubSeq(sorted, 1, k), 1, <<>>)
                   IN  (sorted[k].Type = "delete"
                        /\ sorted[k].Position < Len(before))
                       => /\ after = Without(before, sorted[k].Position + 1)
                          /\ Len(after) = Len(before) - 1)
    /\ [][\A r \in Replicas, p \in Positions, t \in Times :
            (LocalDelete(r, p, t) /\ p < Len(crdt[r].Text))
            => /\ crdt'[r].Text = Without(crdt[r].Text, p + 1)
               /\ Len(crdt'[r].Text) = Len(crdt[r].Text) - 1
               /\ \A length \in Lengths :
                     CreateDeleteOperation(crdt[r], r, p, length, t)
                        = CreateDeleteOperation(crdt[r], r, p, 1, t)]_vars

\* reached: a delete has taken the first of two characters and left the other
SingleCharacterDeleteWitness ==
    /\ last.kind = "delete"
    /\ LET ops == crdt[last.r].Operations
           op == ops[Len(ops)]
           before == rebuildText(SubSeq(ops, 1, Len(ops) - 1))
       IN  /\ op.Position = 0
           /\ Len(before) = 2
           /\ crdt[last.r].Text = <<before[2]>>

\* C25: Engine.ApplyOperation for a document id that is not stored reports
\* an error and writes nothing to storage; the edit is not pushed onto the
\* distribution queue and the connection stays open, registered as it was,
\* its reader back at the next frame.
NotFoundOnLiveEdit ==
    [][\A c \in Conns :
          (/\ LiveEditGet(c, FALSE)
           /\ ~store[conns[c].pending.NoteID].Exists)
          => /\ out'.err
             /\ store' = store
             /\ broadcast' = broadcast
             /\ conns'[c].pending = NoMsg
             /\ conns'[c].reader = "read"
             /\ conns'[c].connClosed = conns[c].connClosed
             /\ conns'[c].send = conns[c].send
             /\ clients' = clients]_vars

\* reached: an edit for a note the store does not hold was refused and its
\* connection is still registered and reading
NotFoundOnLiveEditWitness ==
    /\ out.kind = "get" /\ out.err
    /\ \A n \in NoteIDs : ~store[n].Exists
    /\ conns[out.c].reader = "read" /\ ~conns[out.c].connClosed
    /\ clients[conns[out.c].ID] = out.c

\* C26: whenever a storage call fails while a document is reconciled or a
\* live edit is applied, the caller of Sync or ApplyOperation gets a failure
\* and no normal response: handleSyncRequest queues no response and
\* handleEdit queues no edit.
StorageFailurePropagated ==
    [][\A c \in Conns :
          /\ \A withNote \in BOOLEAN, fault \in {"get", "save", "all"} :
                LiveReadSync(c, TRUE, withNote, fault)
                => out'.err /\ conns'[c].reader = "read"
          /\ LiveEditGet(c, TRUE)
                => out'.err /\ conns'[c].reader = "read"
          /\ \A fault \in {"note", "op"} :
                LiveEditSave(c, fault)
                => out'.err /\ conns'[c].reader = "read"]_vars

\* C27: an edit or sync frame whose payload does not decode changes no
\* stored document, pushes nothing onto the distribution queue or the
\* connection's outbound queue, and leaves the connection registered and its
\* reader at the next frame.
MalformedPayloadDiscarded ==
    [][\A c \in Conns :
          (\/ \E n \in NoteIDs, t \in Stamps : LiveReadEdit(c, FALSE, n, t)
           \/ LiveReadSync(c, FALSE, FALSE, "none"))
          => /\ store' = store
             /\ broadcast' = broadcast
             /\ conns'[c].send = conns[c].send
             /\ conns'[c].pending = NoMsg
             /\ clients' = clients
             /\ conns'[c].reader = "read"
             /\ ~conns'[c].connClosed]_vars

\* reached: an undecodable edit frame was dropped on a registered
\* connection while the store holds a document
MalformedPayloadDiscardedWitness ==
    /\ out.kind = "frame" /\ out.err
    /\ \E n \in NoteIDs : store[n].Exists
    /\ conns[out.c].reader = "read" /\ ~conns[out.c].connClosed
    /\ clients[conns[out.c].ID] = out.c

\* C28: a read fault or a write fault on a connection removes that
\* connection from the registry at once, and leaves the registration and
\* the outbound queue of every other connection as they were.
FaultDeregisters ==
    [][\A c \in Conns :
          (\/ ReadFail(c)
           \/ \E written \in BOOLEAN :
                 WriteMsg(c, written) /\ conns'[c].writer = "done")
          => /\ \A id \in Clients : clients'[id] # c
             /\ \A id \in Clients :
                   clients[id] # c => clients'[id] = clients[id]
             /\ \A d \in Conns \ {c} : conns'[d] = conns[d]]_vars

\* C29: the registry is modified only by a task that holds clientsMux
\* exclusively; the fan-out scan, which holds it shared, never modifies it.
RegistryDiscipline ==
    [][clients' # clients => (~hub.busy /\ ~hub'.busy)]_vars

\* C30: an edit is pushed onto the distribution queue only after
\* Engine.ApplyOperation returned success for it, and when it is pushed the
\* stored document's log holds the operation, its clock has absorbed the
\* operation's and its Content is the text of its CRDT.
PersistBeforeBroadcast ==
    [][\A c \in Conns :
          (PushBroadcast(c) /\ conns[c].pending.Type = "edit")
          => LET msg == conns[c].pending
                 note == store[msg.NoteID]
             IN  /\ note.Exists
                 /\ msg.op.ID \in OpIDs(note.CRDT.Operations)
                 /\ \A k \in Clients : note.Clock[k] >= msg.op.Clock[k]
                 /\ note.Content = note.CRDT.Text]_vars

\* The entries of ops whose id is not in ids, in the order of ops.
RECURSIVE Unseen(_, _)
Unseen(ops, ids) ==
    IF ops = <<>> THEN <<>>
    ELSE IF Head(ops).ID \in ids THEN Unseen(Tail(ops), ids)
    ELSE <<Head(ops)>> \o Unseen(Tail(ops), ids)

\* C31: after target.Merge(other) the ids of target are the union of the ids
\* both held; the operations target held keep their places, exactly the
\* operations of other whose id target lacked follow them in other's order,
\* and other is unchanged.
MergeIsUnionById ==
    [][\A r \in Replicas, s \in Replicas :
          CallMerge(r, s)
          => LET old == crdt[r].Operations
                 ids == {old[i].ID : i \in 1 .. Len(old)}
             IN  /\ OpIDs(crdt'[r].Operations)
                       = ids \cup OpIDs(crdt[s].Operations)
                 /\ SubSeq(crdt'[r].Operations, 1, Len(old)) = old
                 /\ crdt'[r].Operations
                       = old \o Unseen(crdt[s].Operations, ids)
                 /\ crdt'[s] = crdt[s]]_vars

\* reached: a Merge from a source that held operations the target had and
\* operations it lacked, into a target with operations the source lacks
MergeIsUnionByIdWitness ==
    /\ last.kind = "merge" /\ last.added > 0
    /\ Len(crdt[last.s].Operations) > last.added
    /\ \E i \in 1 .. Len(crdt[last.r].Operations) :
          crdt[last.r].Operations[i].ID \notin OpIDs(crdt[last.s].Operations)

\* C33: after target.Merge(other), the clock of target is component-wise
\* greater than or equal to the clock of other.
MergeAbsorbsClock ==
    [][\A r \in Replicas, s \in Replicas :
          CallMergeInto(r, s)
          => \A k \in Clients : crdt'[r].Clock[k] >= crdt[s].Clock[k]]_vars

\* The order in which rebuildText replays the log of replica r.
ReplayOrder(r) == SortSlice(crdt[r].Operations)

CausalFirst(sorted) ==
    \A i \in 1 .. Len(sorted), j \in 1 .. Len(sorted) :
        i < j => ~HappensBefore(sorted[j].Clock, sorted[i].Clock)

TieBroken(sorted) ==
    \A i \in 1 .. Len(sorted), j \in 1 .. Len(sorted) :
        (/\ i < j
         /\ ~HappensBefore(sorted[i].Clock, sorted[j].Clock)
         /\ ~HappensBefore(sorted[j].Clock, sorted[i].Clock)
         /\ sorted[i].Clock # sorted[j].Clock)
        => \/ sorted[i].Timestamp < sorted[j].Timestamp
           \/ /\ sorted[i].Timestamp = sorted[j].Timestamp
              /\ sorted[i].ClientID <= sorted[j].ClientID

Occurrences(ops, op) == Cardinality({i \in 1 .. Len(ops) : ops[i] = op})

SameOps(a, b) ==
    \A op \in {a[i] : i \in 1 .. Len(a)} \cup {b[i] : i \in 1 .. Len(b)} :
        Occurrences(a, op) = Occurrences(b, op)

\* C32: in the order used to replay a log, an operation whose clock is
\* strictly before another's comes first, concurrent operations come in
\* ascending timestamp and then ascending client id, and two logs holding
\* the same operations in different orders are replayed in the same order.
MaterializationOrder ==
    /\ \A r \in Replicas :
          CausalFirst(ReplayOrder(r)) /\ TieBroken(ReplayOrder(r))
    /\ \A r \in Replicas, s \in Replicas :
          SameOps(crdt[r].Operations, crdt[s].Operations)
          => ReplayOrder(r) = ReplayOrder(s)

\* C34: in every conflict record of a sync response, ClientClock is the clock
\* of the note the client sent and ServerClock is the clock the stored note
\* had when it was compared, before the merge.
ConflictRecordContents ==
    [][\A c \in Clients :
          Sync(c)
          => \A i \in 1 .. Len(out'.resp.Conflicts) :
                LET k == out'.resp.Conflicts[i]
                IN  /\ k.ClientClock = local[c][k.NoteID].Clock
                    /\ k.ServerClock = store[k.NoteID].Clock]_vars

\* C35: no goroutine sends on a connection's send channel after the channel
\* was closed, and no send channel is closed twice: the process never
\* panics on a channel operation.
NoSendOnClosedQueue == panicked = FALSE

\* C36: a registered connection leaves the registry only because its own
\* reader failed or its own send channel was saturated (a newer connection
\* taking over the client id is not counted): a connection that ends does
\* not remove the registration of a newer connection with the same client id.
OwnFaultOnly ==
    [][\A id \in Clients :
          LET d == clients[id]
          IN  (d # 0 /\ clients'[id] # d)
              => \/ conns[d].reader # "done" /\ conns'[d].reader = "done"
                 \/ ~conns[d].send.closed /\ conns'[d].send.closed
                 \/ clients'[id] # 0]_vars

\* C37: once the reader of a connection has ended and the connection is out
\* of the registry, its writer ends too (unless the process has died): no
\* writePump stays blocked on the send channel for ever.
WriterTerminates ==
    \A c \in Conns :
        (conns[c].reader = "done" /\ clients[conns[c].ID] # c)
        ~> (conns[c].writer = "done" \/ panicked)

\* C38: whenever a sync response holds a conflict for a note, its Notes hold
\* that note as it is stored after the merge and its Clock has an entry for
\* the note, whatever last-sync clock the client sent.
ConflictComesWithNote ==
    [][\A c \in Clients :
          Sync(c)
          => \A i \in 1 .. Len(out'.resp.Conflicts) :
                LET n == out'.resp.Conflicts[i].NoteID
                IN  /\ out'.resp.Notes[n].Exists
                    /\ out'.resp.Notes[n] = store'[n]
                    /\ ~out'.resp.Clock[n].IsNil]_vars

\* C39: Engine.Sync run a second time on the request it has just served, with
\* nothing in between, leaves the log, the text (the CRDT's and the note's
\* Content) and the clock of every stored note as the first run left them.
ResubmissionHarmless ==
    [][\A c \in Clients :
          Sync(c)
          => LET again == SyncLoop(store', CacheFrom(c, 1), 1, <<>>, <<>>, {}).store
             IN  \A n \in NoteIDs :
                    /\ again[n].CRDT.Operations = store'[n].CRDT.Operations
                    /\ again[n].CRDT.Text = store'[n].CRDT.Text
                    /\ again[n].Content = store'[n].Content
                    /\ again[n].Clock = store'[n].Clock]_vars

\* The note's Content is the text of its CRDT and its clock has absorbed the
\* clock of every operation of its log.
Projected(note) ==
    /\ note.Content = note.CRDT.Text
    /\ \A i \in 1 .. Len(note.CRDT.Operations) :
          \A k \in Clients : note.Clock[k] >= note.CRDT.Operations[i].Clock[k]

====
